---- MODULE Spec2Model ----
(***************************************************************************)
(* A model of the PRTG client library (app/prtg/client.py): the in-memory  *)
(* object tree built from a sensortree document, its reconciliation        *)
(* against later documents (refresh), and the request/response operations  *)
(* every node offers.                                                      *)
(*                                                                         *)
(* Python objects live in a heap indexed by object identity; lists of      *)
(* objects are sequences of identities, so that two lists may alias one    *)
(* object as the code's lists do.  An identity is the place the object was *)
(* constructed at: the identity of the object whose method constructed it, *)
(* the list it was constructed for, the id its fragment names, and a       *)
(* serial that tells it from every other living object constructed at the  *)
(* same place.  A document is a tree of named nodes [tag, text, kids] as   *)
(* the markup parser delivers it.  Python's None is the string "None",     *)
(* which is also how str.format renders it.                                *)
(***************************************************************************)
EXTENDS Integers, Sequences, FiniteSets, TLC

VARIABLES heap,   \* object identity -> object, for the objects alive
          err,    \* exception raised by the last operation, NoErr when it returned
          ret,    \* value returned by the last operation
          sent,   \* URLs requested by the last operation, in order
          out,    \* lines printed by the last operation
          last,   \* the last operation: its name, its target, the fragment it
                  \* got, the status the server answered with, its arguments
          held    \* the node the caller holds and calls the node operations on

vars == <<heap, err, ret, sent, out, last, held>>

(***************************************************************************)
(* Bounds of the model.                                                    *)
(***************************************************************************)
NumIds == 2      \* server ids per kind of entity
MaxObj == 8      \* objects alive; an operation runs only when its objects fit

None == "None"
NoErr == [type |-> "none", msg |-> ""]
Root == <<>>     \* identity of the PRTGApi instance the client is built around
NoObj == <<"none">>

(***************************************************************************)
(* Documents.                                                              *)
(***************************************************************************)
Elem(tag, kids) == [tag |-> tag, text |-> None, kids |-> kids]

Leaf(tag, text) == [tag |-> tag, text |-> text, kids |-> <<>>]

NoNode == [tag |-> "<nothing>", text |-> None, kids |-> <<>>]

\* child.string taken as it is, None for a child without text
TextAsIs(node) == node.text

\* child.string after "if child.string is None: child.string = ''"
Text(node) == IF node.text = None THEN "" ELSE node.text

\* tag.find(name): the first descendant of that name in document order
RECURSIVE FindIn(_, _, _)
FindIn(kids, i, tag) ==
    IF i > Len(kids) THEN NoNode
    ELSE IF kids[i].tag = tag THEN kids[i]
    ELSE LET below == FindIn(kids[i].kids, 1, tag)
         IN  IF below # NoNode THEN below ELSE FindIn(kids, i + 1, tag)

Find(node, tag) == FindIn(node.kids, 1, tag)

(***************************************************************************)
(* Python lists.                                                           *)
(***************************************************************************)
Has(s, x) == \E i \in 1..Len(s) : s[i] = x

IndexOf(s, x) == CHOOSE i \in 1..Len(s) : s[i] = x /\ \A j \in 1..(i - 1) : s[j] # x

\* list.remove(x) of a list that holds x: the first occurrence goes
ListRemove(s, x) ==
    LET k == IndexOf(s, x)
    IN  [i \in 1..(Len(s) - 1) |-> IF i < k THEN s[i] ELSE s[i + 1]]

Range(s) == {s[i] : i \in 1..Len(s)}

\* t occurs in s
Contains(s, t) == \E i \in 0..(Len(s) - Len(t)) : SubSeq(s, i + 1, i + Len(t)) = t

(***************************************************************************)
(* Connection configuration (ConnectionMethods).                           *)
(***************************************************************************)
ConfData ==
    [host |-> "prtg", port |-> "443", user |-> "admin", passhash |-> "0000",
     protocol |-> "https", verify |-> "True"]

unpack_config(obj, confdata) ==
    [obj EXCEPT
        !.host = confdata.host, !.port = confdata.port, !.user = confdata.user,
        !.passhash = confdata.passhash, !.protocol = confdata.protocol,
        !.verify = confdata.verify,
        !.base_url = confdata.protocol \o "://" \o confdata.host \o ":"
                        \o confdata.port \o "/api/",
        !.base_url_no_api = confdata.protocol \o "://" \o confdata.host \o ":"
                        \o confdata.port \o "/",
        !.url_auth = "username=" \o confdata.user \o "&passhash="
                        \o confdata.passhash]

(***************************************************************************)
(* Objects.                                                                *)
(***************************************************************************)
\* A fresh instance before any __init__ ran: every attribute the model
\* follows, unset.
Blank(cls) ==
    [cls |-> cls,
     host |-> None, port |-> None, user |-> None, passhash |-> None,
     protocol |-> None, verify |-> None,
     base_url |-> None, base_url_no_api |-> None, url_auth |-> None,
     id |-> None, objid |-> None, sensorid |-> None, deviceid |-> None,
     type |-> None,
     name |-> None, status |-> None, status_raw |-> None, active |-> None,
     probes |-> <<>>, groups |-> <<>>, devices |-> <<>>, sensors |-> <<>>,
     channels |-> <<>>, sensors_by_status |-> <<>>,
     allprobes |-> <<>>, allgroups |-> <<>>, alldevices |-> <<>>,
     allsensors |-> <<>>]

\* ConnectionMethods.__init__
ConnectionInit(obj) ==
    [obj EXCEPT
        !.host = None, !.port = None, !.user = None, !.passhash = None,
        !.protocol = None, !.verify = None, !.base_url = None,
        !.base_url_no_api = None, !.url_auth = None]

\* BaseConfig.__init__: the registries become attributes of the instance
BaseConfigInit(obj) ==
    [ConnectionInit(obj) EXCEPT
        !.id = None, !.objid = None, !.sensorid = None, !.type = None,
        !.name = None, !.status = None, !.status_raw = None, !.active = None,
        !.allprobes = <<>>, !.allgroups = <<>>, !.alldevices = <<>>,
        !.allsensors = <<>>]

\* PRTGApi.__init__ up to the call of initialize
PRTGApiInit(obj, confdata, rootid) ==
    [unpack_config(BaseConfigInit(obj), confdata) EXCEPT
        !.allprobes = <<>>, !.allgroups = <<>>, !.alldevices = <<>>,
        !.allsensors = <<>>,
        !.probes = <<>>, !.groups = <<>>, !.devices = <<>>, !.id = rootid]

\* setattr(self, name, value) for the attributes the model follows
SetAttr(obj, nm, v) == IF nm \in DOMAIN obj THEN [obj EXCEPT ![nm] = v] ELSE obj

\* the identity of an object that self constructs for its list lst from soup
Alloc(h, self, lst, soup, idtag) ==
    LET place(n) == self \o <<lst, Find(soup, idtag).text, n>>
        n == CHOOSE k \in 0..Cardinality(DOMAIN h) :
                /\ place(k) \notin DOMAIN h
                /\ \A j \in 0..(k - 1) : place(j) \in DOMAIN h
    IN  place(n)

\* the heap with obj stored at o
Put(st, o, obj) == [st EXCEPT !.h = (o :> obj) @@ @]

\* a local variable: the value is bound once and used by what follows
Bind(value, Then(_)) == Then(value)

(***************************************************************************)
(* The state an operation threads through its steps:                       *)
(*   h     the heap                                                        *)
(*   err   the exception in flight (NoErr: none)                           *)
(*   oid   the object the last constructor call built                      *)
(*   sent  the URLs requested so far                                       *)
(*   out   the lines printed so far                                        *)
(*   net   the server's answers to the requests still to come; the last    *)
(*         answer repeats                                                  *)
(*   resp  what the last get_request returned (NoResp: None)               *)
(*   ret   what the operation returns                                      *)
(***************************************************************************)
Exc(type, msg) == [type |-> type, msg |-> msg]

Raise(st, type, msg) == [st EXCEPT !.err = Exc(type, msg)]

Ok(st) == st.err = NoErr

NoResp == [status |-> 0, text |-> None, items |-> <<>>]

Answer(status, text, items) == [status |-> status, text |-> text, items |-> items]

\* the object the constructor call r built put at the front of both lists
Prepended(r, self, first, second) ==
    IF ~(r.err = NoErr) THEN r
    ELSE [r EXCEPT !.h[self][first] = <<r.oid>> \o @,
                   !.h[self][second] = <<r.oid>> \o @]

\* "self.first.append(obj); self.second.append(obj)" for the object the
\* constructor call r built
Appended(r, self, first, second) ==
    IF ~(r.err = NoErr) THEN r
    ELSE [r EXCEPT !.h[self][first] = Append(@, r.oid),
                   !.h[self][second] = Append(@, r.oid)]

Begin(h, net) ==
    [h |-> h, err |-> NoErr, oid |-> NoObj, sent |-> <<>>, out |-> <<>>,
     net |-> net, resp |-> NoResp, ret |-> None]

\* get_request whose not-found error does not say which URL was asked for
get_requestBare(st, self, url_string, api) ==
    LET base == IF api THEN st.h[self].base_url ELSE st.h[self].base_url_no_api
        url  == base \o url_string \o "&" \o st.h[self].url_auth
        req  == Head(st.net)
        st1  == [st EXCEPT !.sent = Append(@, url),
                           !.net = IF Len(@) > 1 THEN Tail(@) ELSE @]
    IN  IF ~Ok(st) THEN st
        ELSE IF req.status = 200 THEN [st1 EXCEPT !.resp = req]
        ELSE IF req.status = 401
             THEN Raise(st1, "AuthenticationError",
                        "PRTG authentication failed. Check credentials in config file")
        ELSE IF req.status = 404
             THEN Raise(st1, "ResourceNotFound", "No resource at URL used: " \o url_string)
        ELSE [st1 EXCEPT !.resp = NoResp]

\* ConnectionMethods.get_request
get_request(st, self, url_string, api) ==
    LET base == IF api THEN st.h[self].base_url ELSE st.h[self].base_url_no_api
        url  == base \o url_string \o "&" \o st.h[self].url_auth
        req  == Head(st.net)
        st1  == [st EXCEPT !.sent = Append(@, url),
                           !.net = IF Len(@) > 1 THEN Tail(@) ELSE @]
    IN  IF ~Ok(st) THEN st
        ELSE IF req.status = 200 THEN [st1 EXCEPT !.resp = req]
        ELSE IF req.status = 401
             THEN Raise(st1, "AuthenticationError",
                        "PRTG authentication failed. Check credentials in config file")
        ELSE IF req.status = 404
             THEN Raise(st1, "ResourceNotFound", "No resource at URL used: " \o url)
        ELSE [st1 EXCEPT !.resp = NoResp]

(***************************************************************************)
(* Construction of the typed entities from a document fragment.            *)
(***************************************************************************)
\* the same loop on an object whose name and status were cleared first
RECURSIVE SetAttrsFresh(_, _, _)
SetAttrsFresh(obj, kids, i) ==
    IF i > Len(kids) THEN obj
    ELSE SetAttrsFresh(
             SetAttr(IF i = 1
                     THEN [obj EXCEPT !.name = None, !.status = None,
                                      !.status_raw = None, !.active = None]
                     ELSE obj,
                     kids[i].tag, Text(kids[i])),
             kids, i + 1)

\* "for child in soup.children: setattr(self, child.name, child.string)"
RECURSIVE SetAttrs(_, _, _)
SetAttrs(obj, kids, i) ==
    IF i > Len(kids) THEN obj
    ELSE SetAttrs(SetAttr(obj, kids[i].tag, Text(kids[i])), kids, i + 1)

\* Channel.initialize
ChannelInitialize(obj, soup) ==
    LET o1 == SetAttrs(obj, soup.kids, 1)
    IN  [o1 EXCEPT !.id = o1.objid, !.type = "Channel"]

\* Channel.__init__: the owner's id is stored before the base constructors run
NewChannel(st, soup, sensorid, s) ==
    LET o   == Alloc(st.h, s, "channels", soup, "objid")
        pre == [unpack_config(Blank("Channel"), ConfData) EXCEPT
                    !.sensorid = sensorid, !.id = None]
        obj == ChannelInitialize(PRTGApiInit(pre, ConfData, "0"), soup)
    IN  [Put(st, o, obj) EXCEPT !.oid = o]

\* Channel.refresh
ChannelRefresh(st, c, soup) ==
    LET o1 == SetAttrs(st.h[c], soup.kids, 1)
    IN  [st EXCEPT !.h[c] = [o1 EXCEPT !.id = o1.objid]]

\* Sensor.initialize
SensorInitialize(obj, soup) == SetAttrs(obj, soup.kids, 1)

\* Sensor.__init__
NewSensor(st, soup, deviceid, d) ==
    LET o   == Alloc(st.h, d, "sensors", soup, "id")
        pre == [unpack_config(Blank("Sensor"), ConfData) EXCEPT
                    !.channels = <<>>, !.type = "Sensor", !.deviceid = deviceid]
        obj == SensorInitialize(PRTGApiInit(pre, ConfData, "0"), soup)
    IN  [Put(st, o, obj) EXCEPT !.oid = o]

\* get_channels, no channel cached: one Channel per item of the answer
RECURSIVE AddChannels(_, _, _, _)
AddChannels(st, s, items, i) ==
    IF ~Ok(st) \/ i > Len(items) THEN st
    ELSE AddChannels(
             Bind(NewChannel(st, items[i], st.h[s].id, s),
                  LAMBDA r : [r EXCEPT !.h[s].channels = Append(@, r.oid)]),
             s, items, i + 1)

\* the loop over the cached channels refreshing every one of them from the
\* item, whatever its objid
RECURSIVE RefreshChannelsAll(_, _, _, _)
RefreshChannelsAll(st, s, item, k) ==
    IF ~Ok(st) \/ k > Len(st.h[s].channels) THEN st
    ELSE RefreshChannelsAll(ChannelRefresh(st, st.h[s].channels[k], item), s, item, k + 1)

\* get_channels, channels cached: "for achannel in self.channels" for one item
RECURSIVE RefreshChannels(_, _, _, _)
RefreshChannels(st, s, item, k) ==
    IF ~Ok(st) \/ k > Len(st.h[s].channels) THEN st
    ELSE LET c    == st.h[s].channels[k]
             objn == Find(item, "objid")
         IN  IF objn = NoNode
             THEN Raise(st, "AttributeError", "'NoneType' object has no attribute 'string'")
             ELSE IF st.h[c].objid = objn.text
                  THEN RefreshChannels(ChannelRefresh(st, c, item), s, item, k + 1)
                  ELSE RefreshChannels(st, s, item, k + 1)

RECURSIVE UpdateChannels(_, _, _, _)
UpdateChannels(st, s, items, i) ==
    IF ~Ok(st) \/ i > Len(items) THEN st
    ELSE UpdateChannels(RefreshChannels(st, s, items[i], 1), s, items, i + 1)

\* get_channels that rebuilds the list from every answer
get_channelsRebuilt(st, s) ==
    LET url == "table.xml?content=channels&output=xml"
                \o "&columns=name,lastvalue_,objid&id=" \o st.h[s].id
    IN  Bind(get_request(st, s, url, TRUE),
             LAMBDA st1 :
                 IF ~Ok(st1) THEN st1
                 ELSE IF st1.resp = NoResp
                      THEN Raise(st1, "AttributeError",
                                 "'NoneType' object has no attribute 'text'")
                 ELSE AddChannels([st1 EXCEPT !.h[s].channels = <<>>],
                                  s, st1.resp.items, 1))

\* Sensor.get_channels
get_channels(st, s) ==
    LET url == "table.xml?content=channels&output=xml"
                \o "&columns=name,lastvalue_,objid&id=" \o st.h[s].id
    IN  Bind(get_request(st, s, url, TRUE),
             LAMBDA st1 :
                 IF ~Ok(st1) THEN st1
                 ELSE IF st1.resp = NoResp
                      THEN Raise(st1, "AttributeError",
                                 "'NoneType' object has no attribute 'text'")
                 ELSE IF st1.h[s].channels = <<>>
                      THEN AddChannels(st1, s, st1.resp.items, 1)
                      ELSE UpdateChannels(st1, s, st1.resp.items, 1))

\* Sensor.refresh that asks for the channels whatever the cache holds
SensorRefreshEager(st, s, soup) ==
    IF ~Ok(st) THEN st
    ELSE Bind([st EXCEPT !.h[s] = SensorInitialize(@, soup)],
              LAMBDA st1 : get_channels(st1, s))

\* Sensor.refresh with the fragment supplied
SensorRefresh(st, s, soup) ==
    IF ~Ok(st) THEN st
    ELSE Bind([st EXCEPT !.h[s] = SensorInitialize(@, soup)],
              LAMBDA st1 :
                  IF st1.h[s].channels # <<>> THEN get_channels(st1, s) ELSE st1)

\* Device.initialize, its loop over the fragment's children
RECURSIVE DeviceInitLoop(_, _, _, _)
DeviceInitLoop(st, d, kids, i) ==
    IF ~Ok(st) \/ i > Len(kids) THEN st
    ELSE IF kids[i].tag = "sensor"
         THEN DeviceInitLoop(
                  Appended(NewSensor(st, kids[i], st.h[d].id, d),
                           d, "sensors", "allsensors"),
                  d, kids, i + 1)
         ELSE DeviceInitLoop(
                  [st EXCEPT !.h[d] = SetAttr(@, kids[i].tag, Text(kids[i]))],
                  d, kids, i + 1)

\* the dictionary Device.initialize starts sensors_by_status from
BaseBuckets == [k \in {"Up", "Down", "Warning", "Paused"} |-> <<>>]

\* "for asensor in self.sensors": each sensor goes to the bucket of its status,
\* a status without a bucket gets one
RECURSIVE Bucketed(_, _, _, _)
Bucketed(h, sensors, i, buckets) ==
    IF i > Len(sensors) THEN buckets
    ELSE Bucketed(h, sensors, i + 1,
                  IF h[sensors[i]].status \in DOMAIN buckets
                  THEN [buckets EXCEPT ![h[sensors[i]].status] = Append(@, sensors[i])]
                  ELSE (h[sensors[i]].status :> <<sensors[i]>>) @@ buckets)

\* Device.__init__ and Device.initialize
NewDevice(st, soup, self) ==
    LET o   == Alloc(st.h, self, "devices", soup, "id")
        pre == [unpack_config(Blank("Device"), ConfData) EXCEPT !.sensors = <<>>]
        st0 == Put(st, o, PRTGApiInit(pre, ConfData, "0"))
    IN  Bind(DeviceInitLoop(st0, o, soup.kids, 1),
             LAMBDA st1 :
                 IF ~Ok(st1) THEN st1
                 ELSE [st1 EXCEPT
                          !.h[o].sensors_by_status =
                              Bucketed(st1.h, st1.h[o].sensors, 1, BaseBuckets),
                          !.h[o].type = "Device", !.oid = o])

\* Group.initialize, its loop over the fragment's children; Group.__init__
RECURSIVE GroupInitLoop(_, _, _, _), NewGroup(_, _, _, _)
GroupInitLoop(st, g, kids, i) ==
    IF ~Ok(st) \/ i > Len(kids) THEN st
    ELSE IF kids[i].tag = "device"
         THEN GroupInitLoop(
                  Appended(NewDevice(st, kids[i], g), g, "devices", "alldevices"),
                  g, kids, i + 1)
    ELSE IF kids[i].tag = "group"
         THEN GroupInitLoop(
                  Appended(NewGroup(st, kids[i], "Group", g), g, "groups", "allgroups"),
                  g, kids, i + 1)
    ELSE GroupInitLoop(
             [st EXCEPT !.h[g] = SetAttr(@, kids[i].tag, Text(kids[i]))],
             g, kids, i + 1)

\* cls is "Group" or "Probe": Probe inherits everything and adds the class
\* attribute type = "Probe", which the instance attribute set by
\* BaseConfig.__init__ hides
NewGroup(st, soup, cls, self) ==
    LET o   == Alloc(st.h, self, IF cls = "Probe" THEN "probes" ELSE "groups", soup, "id")
        pre == [unpack_config(Blank(cls), ConfData) EXCEPT
                    !.groups = <<>>, !.devices = <<>>,
                    !.type = IF cls = "Probe" THEN "Probe" ELSE None]
        st0 == Put(st, o, PRTGApiInit(pre, ConfData, "0"))
    IN  Bind(GroupInitLoop(st0, o, soup.kids, 1),
             LAMBDA st1 :
                 IF ~Ok(st1) THEN st1
                 ELSE [st1 EXCEPT !.h[o].type = "Group", !.oid = o])

\* PRTGApi.initialize: the children of one top-level node of the document
RECURSIVE RootInitLoop(_, _, _, _)
RootInitLoop(st, self, kids, i) ==
    IF ~Ok(st) \/ i > Len(kids) THEN st
    ELSE IF kids[i].tag = "probenode"
         THEN RootInitLoop(
                  Appended(NewGroup(st, kids[i], "Probe", self),
                           self, "allprobes", "probes"),
                  self, kids, i + 1)
    ELSE IF kids[i].tag = "device"
         THEN RootInitLoop(
                  Appended(NewDevice(st, kids[i], self), self, "devices", "alldevices"),
                  self, kids, i + 1)
    ELSE IF kids[i].tag = "group"
         THEN RootInitLoop(
                  Appended(NewGroup(st, kids[i], "Group", self),
                           self, "groups", "allgroups"),
                  self, kids, i + 1)
    ELSE RootInitLoop(
             [st EXCEPT !.h[self] = SetAttr(@, kids[i].tag, Text(kids[i]))],
             self, kids, i + 1)

\* PRTGApi.initialize: "for child in self.treesoup.sensortree.nodes.children"
RECURSIVE RootInitTops(_, _, _, _)
RootInitTops(st, self, tops, t) ==
    IF ~Ok(st) \/ t > Len(tops) THEN st
    ELSE RootInitTops(RootInitLoop(st, self, tops[t].kids, 1), self, tops, t + 1)

\* PRTGApi.__init__ and initialize, the tree request answered with nodes
NewRoot(st, nodes, rootid) ==
    LET st0 == Put(st, Root, PRTGApiInit(Blank("PRTGApi"), ConfData, rootid))
    IN  RootInitTops(st0, Root, nodes.kids, 1)

(***************************************************************************)
(* Reconciliation (refresh).                                               *)
(***************************************************************************)
NoneString == "'NoneType' object has no attribute 'string'"

\* the snapshot of ids left empty
IdsOfNothing(h, coll) == <<>>

\* "for aX in self.Xs: ids.append(aX.id)"
IdsOf(h, coll) == [i \in 1..Len(coll) |-> h[coll[i]].id]

\* "newids.append(child.find('id').string)" over the children named tag
RECURSIVE NewIds(_, _, _)
NewIds(kids, i, tag) ==
    IF i > Len(kids) THEN <<>>
    ELSE IF kids[i].tag = tag
         THEN <<Find(kids[i], "id").text>> \o NewIds(kids, i + 1, tag)
         ELSE NewIds(kids, i + 1, tag)

\* list.remove(x) on the list attribute lst of self
PyRemove(st, self, lst, x) ==
    IF ~Ok(st) THEN st
    ELSE IF ~Has(st.h[self][lst], x)
         THEN Raise(st, "ValueError", "list.remove(x): x not in list")
         ELSE [st EXCEPT !.h[self][lst] = ListRemove(@, x)]

\* the last object of the list whose id is idval, NoObj when there is none:
\* "for aX in self.Xs: if aX.id == idval: toremove = aX"
LastMatch(h, coll, idval) ==
    LET hits == {i \in 1..Len(coll) : h[coll[i]].id = idval}
    IN  IF hits = {} THEN NoObj
        ELSE coll[CHOOSE i \in hits : \A j \in hits : j <= i]

\* Device.refresh and Group.refresh, the removal of the children that the
\* fragment no longer names: from the collection, then from the registry.
\* toremove is the loop's variable, NoObj while it is unbound.
RECURSIVE RemoveStale(_, _, _, _, _, _, _, _)
RemoveStale(st, self, coll, reg, oldids, newids, k, toremove) ==
    IF ~Ok(st) \/ k > Len(oldids) THEN st
    ELSE IF Has(newids, oldids[k])
         THEN RemoveStale(st, self, coll, reg, oldids, newids, k + 1, toremove)
    ELSE LET hit == LastMatch(st.h, st.h[self][coll], oldids[k])
             x   == IF hit # NoObj THEN hit ELSE toremove
         IN  IF x = NoObj
             THEN Raise(st, "UnboundLocalError",
                        "local variable referenced before assignment")
             ELSE RemoveStale(PyRemove(PyRemove(st, self, coll, x), self, reg, x),
                              self, coll, reg, oldids, newids, k + 1, x)

\* Device.refresh, its loop over the fragment's children
RECURSIVE SensorsMatching(_, _, _, _, _)
SensorsMatching(st, d, idv, child, k) ==
    IF ~Ok(st) \/ k > Len(st.h[d].sensors) THEN st
    ELSE LET x == st.h[d].sensors[k]
         IN  SensorsMatching(
                 IF st.h[x].id = idv THEN SensorRefresh(st, x, child) ELSE st,
                 d, idv, child, k + 1)

RECURSIVE DeviceRefreshLoop(_, _, _, _, _)
DeviceRefreshLoop(st, d, kids, i, sensorids) ==
    IF ~Ok(st) \/ i > Len(kids) THEN st
    ELSE IF kids[i].tag = "sensor"
         THEN LET idn == Find(kids[i], "id")
              IN  IF idn = NoNode THEN Raise(st, "AttributeError", NoneString)
                  ELSE IF Has(sensorids, idn.text)
                  THEN DeviceRefreshLoop(
                           SensorsMatching(st, d, idn.text, kids[i], 1),
                           d, kids, i + 1, sensorids)
                  ELSE DeviceRefreshLoop(
                           Appended(NewSensor(st, kids[i], st.h[d].id, d),
                                    d, "sensors", "allsensors"),
                           d, kids, i + 1, sensorids)
         ELSE DeviceRefreshLoop(
                  [st EXCEPT !.h[d] = SetAttr(@, kids[i].tag, Text(kids[i]))],
                  d, kids, i + 1, sensorids)

\* Device.refresh with the fragment supplied
DeviceRefresh(st, d, soup) ==
    LET sensorids == IdsOf(st.h, st.h[d].sensors)
    IN  IF ~Ok(st) THEN st
        ELSE RemoveStale(DeviceRefreshLoop(st, d, soup.kids, 1, sensorids),
                         d, "sensors", "allsensors", sensorids,
                         NewIds(soup.kids, 1, "sensor"), 1, NoObj)

\* a device the fragment names again replaced by a newly constructed one
DevicesRebuilt(st, self, idv, child, k) ==
    LET old == LastMatch(st.h, st.h[self].devices, idv)
    IN  IF ~Ok(st) \/ old = NoObj THEN st
        ELSE Bind(NewDevice(PyRemove(st, self, "devices", old), child, self),
                  LAMBDA r : [r EXCEPT !.h[self].devices = Append(@, r.oid)])

\* Group.refresh, its loop over the fragment's children
RECURSIVE DevicesMatching(_, _, _, _, _)
DevicesMatching(st, self, idv, child, k) ==
    IF ~Ok(st) \/ k > Len(st.h[self].devices) THEN st
    ELSE LET x == st.h[self].devices[k]
         IN  DevicesMatching(
                 IF st.h[x].id = idv THEN DeviceRefresh(st, x, child) ELSE st,
                 self, idv, child, k + 1)

RECURSIVE GroupsMatching(_, _, _, _, _, _), GroupRefreshLoop(_, _, _, _, _, _)
RECURSIVE GroupRefresh(_, _, _)
GroupsMatching(st, self, coll, idv, child, k) ==
    IF ~Ok(st) \/ k > Len(st.h[self][coll]) THEN st
    ELSE LET x == st.h[self][coll][k]
         IN  GroupsMatching(
                 IF st.h[x].id = idv THEN GroupRefresh(st, x, child) ELSE st,
                 self, coll, idv, child, k + 1)

GroupRefreshLoop(st, g, kids, i, deviceids, groupids) ==
    IF ~Ok(st) \/ i > Len(kids) THEN st
    ELSE IF kids[i].tag = "device"
         THEN LET idn == Find(kids[i], "id")
              IN  IF idn = NoNode THEN Raise(st, "AttributeError", NoneString)
                  ELSE IF Has(deviceids, idn.text)
                  THEN GroupRefreshLoop(
                           DevicesMatching(st, g, idn.text, kids[i], 1),
                           g, kids, i + 1, deviceids, groupids)
                  ELSE GroupRefreshLoop(
                           Appended(NewDevice(st, kids[i], g), g, "devices", "alldevices"),
                           g, kids, i + 1, deviceids, groupids)
    ELSE IF kids[i].tag = "group"
         THEN LET idn == Find(kids[i], "id")
              IN  IF idn = NoNode THEN Raise(st, "AttributeError", NoneString)
                  ELSE IF Has(groupids, idn.text)
                  THEN GroupRefreshLoop(
                           GroupsMatching(st, g, "groups", idn.text, kids[i], 1),
                           g, kids, i + 1, deviceids, groupids)
                  ELSE GroupRefreshLoop(
                           Appended(NewGroup(st, kids[i], "Group", g),
                                    g, "groups", "allgroups"),
                           g, kids, i + 1, deviceids, groupids)
    ELSE GroupRefreshLoop(
             [st EXCEPT !.h[g] = SetAttr(@, kids[i].tag, Text(kids[i]))],
             g, kids, i + 1, deviceids, groupids)

\* Group.refresh with the fragment supplied (Probe inherits it)
GroupRefresh(st, g, soup) ==
    LET deviceids == IdsOf(st.h, st.h[g].devices)
        groupids  == IdsOf(st.h, st.h[g].groups)
    IN  IF ~Ok(st) THEN st
        ELSE RemoveStale(
                 RemoveStale(
                     GroupRefreshLoop(st, g, soup.kids, 1, deviceids, groupids),
                     g, "devices", "alldevices", deviceids,
                     NewIds(soup.kids, 1, "device"), 1, NoObj),
                 g, "groups", "allgroups", groupids,
                 NewIds(soup.kids, 1, "group"), 1, NoObj)

\* PRTGApi.refresh, "for childr in child.children" for one top-level node:
\* an entity the collection of its kind already holds is refreshed in place,
\* any other is constructed and appended
RECURSIVE RootRefreshLoop(_, _, _, _, _, _, _)
RootRefreshLoop(st, self, kids, i, probeids, groupids, deviceids) ==
    IF ~Ok(st) \/ i > Len(kids) THEN st
    ELSE IF kids[i].tag = "probenode"
         THEN LET idn == Find(kids[i], "id")
              IN  IF idn = NoNode THEN Raise(st, "AttributeError", NoneString)
                  ELSE IF Has(probeids, idn.text)
                  THEN RootRefreshLoop(
                           GroupsMatching(st, self, "probes", idn.text, kids[i], 1),
                           self, kids, i + 1, probeids, groupids, deviceids)
                  ELSE RootRefreshLoop(
                           Appended(NewGroup(st, kids[i], "Probe", self),
                                    self, "probes", "allprobes"),
                           self, kids, i + 1, probeids, groupids, deviceids)
    ELSE IF kids[i].tag = "group"
         THEN LET idn == Find(kids[i], "id")
              IN  IF idn = NoNode THEN Raise(st, "AttributeError", NoneString)
                  ELSE IF Has(groupids, idn.text)
                  THEN RootRefreshLoop(
                           GroupsMatching(st, self, "groups", idn.text, kids[i], 1),
                           self, kids, i + 1, probeids, groupids, deviceids)
                  ELSE RootRefreshLoop(
                           Appended(NewGroup(st, kids[i], "Group", self),
                                    self, "allgroups", "groups"),
                           self, kids, i + 1, probeids, groupids, deviceids)
    ELSE IF kids[i].tag = "device"
         THEN LET idn == Find(kids[i], "id")
              IN  IF idn = NoNode THEN Raise(st, "AttributeError", NoneString)
                  ELSE IF Has(deviceids, idn.text)
                  THEN RootRefreshLoop(
                           DevicesMatching(st, self, idn.text, kids[i], 1),
                           self, kids, i + 1, probeids, groupids, deviceids)
                  ELSE RootRefreshLoop(
                           Appended(NewDevice(st, kids[i], self),
                                    self, "alldevices", "devices"),
                           self, kids, i + 1, probeids, groupids, deviceids)
    ELSE RootRefreshLoop(
             [st EXCEPT !.h[self] = SetAttr(@, kids[i].tag, Text(kids[i]))],
             self, kids, i + 1, probeids, groupids, deviceids)

\* PRTGApi.refresh: "for child in self.treesoup.sensortree.nodes.children"
RECURSIVE RootRefreshTops(_, _, _, _, _, _, _)
RootRefreshTops(st, self, tops, t, probeids, groupids, deviceids) ==
    IF ~Ok(st) \/ t > Len(tops) THEN st
    ELSE RootRefreshTops(
             RootRefreshLoop(st, self, tops[t].kids, 1, probeids, groupids, deviceids),
             self, tops, t + 1, probeids, groupids, deviceids)

\* PRTGApi.refresh, the removal for one id that the document no longer names:
\* "for aX in self.Xs: if aX.id == idval: self.first.remove(aX);
\* self.second.remove(aX)".  The list is walked by position while it shrinks.
RECURSIVE RootRemoveWalk(_, _, _, _, _, _, _)
RootRemoveWalk(st, self, coll, first, second, idval, i) ==
    IF ~Ok(st) \/ i > Len(st.h[self][coll]) THEN st
    ELSE LET x == st.h[self][coll][i]
         IN  RootRemoveWalk(
                 IF st.h[x].id = idval
                 THEN PyRemove(PyRemove(st, self, first, x), self, second, x)
                 ELSE st,
                 self, coll, first, second, idval, i + 1)

\* PRTGApi.refresh, "for idval in ids: if idval not in newids: ..."
RECURSIVE RootRemoveStale(_, _, _, _, _, _, _, _)
RootRemoveStale(st, self, coll, first, second, oldids, newids, k) ==
    IF ~Ok(st) \/ k > Len(oldids) THEN st
    ELSE RootRemoveStale(
             IF Has(newids, oldids[k]) THEN st
             ELSE RootRemoveWalk(st, self, coll, first, second, oldids[k], 1),
             self, coll, first, second, oldids, newids, k + 1)

RECURSIVE TopsNewIds(_, _, _)
TopsNewIds(tops, t, tag) ==
    IF t > Len(tops) THEN <<>>
    ELSE NewIds(tops[t].kids, 1, tag) \o TopsNewIds(tops, t + 1, tag)

\* PRTGApi.refresh with the document supplied.  Stale probes and groups leave
\* the registry and then the collection; a stale device is removed from
\* self.devices twice (lines 482-483).
RootRefresh(st, self, nodes) ==
    LET probeids  == IdsOf(st.h, st.h[self].probes)
        groupids  == IdsOf(st.h, st.h[self].groups)
        deviceids == IdsOf(st.h, st.h[self].devices)
    IN  IF ~Ok(st) THEN st
        ELSE RootRemoveStale(
                 RootRemoveStale(
                     RootRemoveStale(
                         RootRefreshTops(st, self, nodes.kids, 1,
                                         probeids, groupids, deviceids),
                         self, "probes", "allprobes", "probes", probeids,
                         TopsNewIds(nodes.kids, 1, "probenode"), 1),
                     self, "groups", "allgroups", "groups", groupids,
                     TopsNewIds(nodes.kids, 1, "group"), 1),
                 self, "devices", "devices", "devices", deviceids,
                 TopsNewIds(nodes.kids, 1, "device"), 1)

(***************************************************************************)
(* The operations every node offers (BaseConfig), and what Channel puts    *)
(* in their place.  Each asks the server and then, the request having      *)
(* returned, writes the local fields.                                      *)
(***************************************************************************)
\* str.upper() of the lines the model lets the user type
Upper(s) == IF s = "y" THEN "Y" ELSE IF s = "n" THEN "N" ELSE s

\* BaseConfig.delete, its prompt loop over the lines typed: the response it
\* leaves with, None when the lines run out before it leaves
RECURSIVE Prompt(_, _, _)
Prompt(answers, i, response) ==
    IF Upper(response) \in {"Y", "N"} THEN response
    ELSE IF i > Len(answers) THEN None
    ELSE Prompt(answers, i + 1, IF answers[i] = "" THEN "N" ELSE answers[i])

\* how many lines the prompt loop reads, and so how often it prompts
RECURSIVE Asked(_, _, _)
Asked(answers, i, response) ==
    IF Upper(response) \in {"Y", "N"} \/ i > Len(answers) THEN i - 1
    ELSE Asked(answers, i + 1, IF answers[i] = "" THEN "N" ELSE answers[i])

PromptLine == "Would you like to continue?(Y/[N])  "

\* the lines the prompt loop writes while it reads the answers
Prompted(st, answers) ==
    [st EXCEPT !.out = @ \o [k \in 1..Asked(answers, 1, "") |-> PromptLine]]

\* delete that sends the request whatever the user answered
deleteAnyway(st, self, confirm, answers) ==
    LET delete_url == "deleteobject.htm?id=" \o st.h[self].id \o "&approve=1"
    IN  IF st.h[self].type = "Root"
        THEN [st EXCEPT !.ret = "You cannot delete the root object."]
        ELSE IF confirm
             THEN get_request(Prompted(st, answers), self, delete_url, TRUE)
             ELSE get_request(st, self, delete_url, TRUE)

\* BaseConfig.delete
delete(st, self, confirm, answers) ==
    LET delete_url == "deleteobject.htm?id=" \o st.h[self].id \o "&approve=1"
        response   == Prompt(answers, 1, "")
    IN  IF st.h[self].type = "Root"
        THEN [st EXCEPT !.ret = "You cannot delete the root object."]
        ELSE IF confirm
             THEN IF Upper(response) = "Y"
                  THEN get_request(Prompted(st, answers), self, delete_url, TRUE)
                  ELSE Prompted(st, answers)
             ELSE get_request(st, self, delete_url, TRUE)

\* Channel.delete
ChannelDelete(st, self, confirm) == [st EXCEPT !.ret = "You cannot delete a channel"]

\* BaseConfig.set_property
set_property(st, self, name, value) ==
    LET o   == st.h[self]
        setprop_url ==
            IF o.type # "Channel"
            THEN "setobjectproperty.htm?id=" \o o.id
                    \o "&name=" \o name \o "&value=" \o value
            ELSE "setobjectproperty.htm?id=" \o o.sensorid \o "&subid=" \o o.objid
                    \o "&name=" \o name \o "&value=" \o value
        st1 == get_request(st, self, setprop_url, TRUE)
    IN  IF ~Ok(st1) THEN st1
        ELSE [st1 EXCEPT !.h[self].name = value]

\* get_property that stores whatever the server answered before it looks at it
get_propertyEager(st, self, name) ==
    LET o == st.h[self]
        getprop_url ==
            IF o.type # "Channel"
            THEN "getobjectproperty.htm?id=" \o o.id
                    \o "&name=" \o name \o "&show=text"
            ELSE "getobjectproperty.htm?id=" \o o.sensorid
                    \o "&subid=" \o o.objid \o "&name=" \o name
    IN  Bind(get_request(st, self, getprop_url, TRUE),
             LAMBDA st1 :
                 IF ~Ok(st1) THEN st1
                 ELSE IF st1.resp = NoResp
                      THEN Raise(st1, "AttributeError",
                                 "'NoneType' object has no attribute 'text'")
                 ELSE Bind(FindIn(st1.resp.items, 1, "result"),
                           LAMBDA result :
                               IF result = NoNode
                               THEN Raise(st1, "AttributeError",
                                          "'NoneType' object has no attribute 'text'")
                               ELSE IF Text(result) # "(Property not found)"
                               THEN [st1 EXCEPT !.h[self] = SetAttr(@, name, Text(result)),
                                                !.ret = Text(result)]
                               ELSE Raise([st1 EXCEPT !.h[self] =
                                                SetAttr(@, name, Text(result))],
                                          "ResourceNotFound",
                                          "No object property of name: " \o name)))

\* BaseConfig.get_property: the body is parsed and its <result> element read
get_property(st, self, name) ==
    LET o == st.h[self]
        getprop_url ==
            IF o.type # "Channel"
            THEN "getobjectproperty.htm?id=" \o o.id
                    \o "&name=" \o name \o "&show=text"
            ELSE "getobjectproperty.htm?id=" \o o.sensorid
                    \o "&subid=" \o o.objid \o "&name=" \o name
    IN  Bind(get_request(st, self, getprop_url, TRUE),
             LAMBDA st1 :
                 IF ~Ok(st1) THEN st1
                 ELSE IF st1.resp = NoResp
                      THEN Raise(st1, "AttributeError",
                                 "'NoneType' object has no attribute 'text'")
                 ELSE Bind(FindIn(st1.resp.items, 1, "result"),
                           LAMBDA result :
                               IF result = NoNode
                               THEN Raise(st1, "AttributeError",
                                          "'NoneType' object has no attribute 'text'")
                               ELSE IF Text(result) # "(Property not found)"
                               THEN [st1 EXCEPT !.h[self] = SetAttr(@, name, Text(result)),
                                                !.ret = Text(result)]
                               ELSE Raise(st1, "ResourceNotFound",
                                          "No object property of name: " \o name)))

\* str.split(sep) for a separator of one character: the pieces between the
\* separators, empty pieces kept
RECURSIVE SplitOn(_, _, _, _)
SplitOn(s, sep, i, cur) ==
    IF i > Len(s) THEN <<cur>>
    ELSE IF SubSeq(s, i, i) = sep THEN <<cur>> \o SplitOn(s, sep, i + 1, "")
    ELSE SplitOn(s, sep, i + 1, cur \o SubSeq(s, i, i))

\* " ".join(list)
RECURSIVE Join(_)
Join(list) ==
    IF list = <<>> THEN ""
    ELSE IF Len(list) = 1 THEN list[1]
    ELSE list[1] \o " " \o Join(Tail(list))

\* BaseConfig.add_tags; tags.list tells whether the argument is a list
add_tags(st, self, tags, clear_old) ==
    IF ~tags.list THEN Raise(st, "Exception", "Needs tags as type: list")
    ELSE IF clear_old
         THEN set_property(st, self, "tags", Join(tags.items))
         ELSE Bind(get_property(st, self, "tags"),
                   LAMBDA st1 :
                       IF ~Ok(st1) THEN st1
                       ELSE set_property([st1 EXCEPT !.ret = None], self, "tags",
                                         Join(SplitOn(st1.ret, " ", 1, "") \o tags.items)))

\* Device.set_host
set_host(st, self, host) ==
    Bind(set_property(st, self, "host", host),
         LAMBDA st1 : IF ~Ok(st1) THEN st1 ELSE [st1 EXCEPT !.h[self].host = host])

\* rename that writes the local name before it asks the server
renameEarly(st, self, newname) ==
    LET rename_url == "rename.htm?id=" \o st.h[self].id \o "&value=" \o newname
    IN  get_request([st EXCEPT !.h[self].name = newname], self, rename_url, TRUE)

\* BaseConfig.rename
rename(st, self, newname) ==
    LET rename_url == "rename.htm?id=" \o st.h[self].id \o "&value=" \o newname
        st1 == get_request(st, self, rename_url, TRUE)
    IN  IF ~Ok(st1) THEN st1
        ELSE [st1 EXCEPT !.h[self].name = newname]

\* Channel.rename
ChannelRename(st, self, newname) ==
    LET st1 == set_property(st, self, "name", newname)
    IN  IF ~Ok(st1) THEN st1
        ELSE [st1 EXCEPT !.h[self].name = newname]

\* BaseConfig.pause
pause(st, self, duration, message) ==
    LET url0 == IF duration > 0
                THEN "pauseobjectfor.htm?id=" \o st.h[self].id
                        \o "&duration=" \o ToString(duration)
                ELSE "pause.htm?id=" \o st.h[self].id \o "&action=0"
        pause_url == IF message # "" THEN url0 \o "&pausemsg=" \o message ELSE url0
        st1 == get_request(st, self, pause_url, TRUE)
    IN  IF ~Ok(st1) THEN st1
        ELSE [st1 EXCEPT !.h[self].status = "Paused",
                         !.h[self].active = "false",
                         !.h[self].status_raw = "7"]

\* Channel.pause
ChannelPause(st, self, duration, message) ==
    LET st0  == [st EXCEPT
                    !.out = Append(@, "Channels cannot be paused, pausing parent sensor.")]
        url0 == IF duration > 0
                THEN "pauseobjectfor.htm?id=" \o st.h[self].sensorid
                        \o "&duration=" \o ToString(duration)
                ELSE "pause.htm?id=" \o st.h[self].sensorid \o "&action=0&"
        pause_url == IF message # "" THEN url0 \o "&pausemsg=" \o message ELSE url0
    IN  get_request(st0, self, pause_url, TRUE)

\* resume that reports the node active but leaves its status as it was
resumeStale(st, self) ==
    LET resume_url == "pause.htm?id=" \o st.h[self].id \o "&action=1"
        st1 == get_request(st, self, resume_url, TRUE)
    IN  IF ~Ok(st1) THEN st1
        ELSE [st1 EXCEPT !.h[self].active = "true"]

\* BaseConfig.resume
resume(st, self) ==
    LET resume_url == "pause.htm?id=" \o st.h[self].id \o "&action=1"
        st1 == get_request(st, self, resume_url, TRUE)
    IN  IF ~Ok(st1) THEN st1
        ELSE [st1 EXCEPT !.h[self].status = "?",
                         !.h[self].active = "true",
                         !.h[self].status_raw = "?"]

\* Channel.resume
ChannelResume(st, self) ==
    LET st0 == [st EXCEPT
                   !.out = Append(@, "Channels cannot be resumed, resuming parent sensor.")]
        resume_url == "pause.htm?id=" \o st.h[self].sensorid \o "&action=1"
    IN  get_request(st0, self, resume_url, TRUE)

\* PRTGApi.search_byid, idval already turned into a string: the first entity
\* of the four registries of self with that id, NoObj when it returns None
search_byid(h, self, idval) ==
    LET all == h[self].allprobes \o h[self].allgroups \o h[self].alldevices
                   \o h[self].allsensors
        hits == {i \in 1..Len(all) : h[all[i]].id = idval}
    IN  IF hits = {} THEN NoObj
        ELSE all[CHOOSE i \in hits : \A j \in hits : i <= j]

(***************************************************************************)
(* The standalone objects.  Each is the only object of its heap and is     *)
(* stored at Root; a constructor that raises leaves no object.             *)
(***************************************************************************)
\* PRTGDevice.__init__: BaseConfig.__init__ takes no keyword argument
PRTGDeviceNew(st, confdata, deviceid) ==
    Bind([unpack_config(Blank("PRTGDevice"), confdata) EXCEPT
              !.sensors = <<>>, !.sensors_by_status = BaseBuckets,
              !.deviceid = deviceid],
         LAMBDA self :
             Raise(st, "TypeError",
                   "__init__() got an unexpected keyword argument 'host'"))

\* PRTGSensor.__init__: BaseConfig.__init__ runs last, initialize is not called
PRTGSensorNew(st, confdata, sensorid) ==
    Put(st, Root,
        BaseConfigInit([unpack_config(Blank("PRTGSensor"), confdata) EXCEPT
                            !.channels = <<>>, !.sensorid = sensorid]))

\* PRTGHistoricData.__init__: ConnectionMethods.__init__ takes no keyword
\* argument
PRTGHistoricDataNew(st, confdata) ==
    Bind(unpack_config(Blank("PRTGHistoricData"), confdata),
         LAMBDA self :
             Raise(st, "TypeError",
                   "__init__() got an unexpected keyword argument 'host'"))

\* csv.reader for lines without quotes: the cells of each line, no cell for
\* an empty line
Cells(line) == IF line = "" THEN <<>> ELSE SplitOn(line, ",", 1, "")

\* "cell[: cell.index(' -')]": the cell up to the first " -", None when the
\* cell holds none
RECURSIVE CutDate(_, _)
CutDate(cell, i) ==
    IF i + 1 > Len(cell) THEN None
    ELSE IF SubSeq(cell, i, i + 1) = " -" THEN SubSeq(cell, 1, i - 1)
    ELSE CutDate(cell, i + 1)

\* get_historic_data, its loop over the cells of one data row; d.why names
\* the exception a cell raised
RECURSIVE HistoricRow(_, _, _, _)
HistoricRow(d, headers, row, inde) ==
    IF d.why # "" \/ inde > Len(row) THEN d
    ELSE IF inde > Len(headers) THEN [d EXCEPT !.why = "IndexError"]
    ELSE IF headers[inde] = "Date Time"
         THEN IF Contains(row[inde], "-") /\ CutDate(row[inde], 1) = None
              THEN [d EXCEPT !.why = "ValueError"]
              ELSE HistoricRow(
                       [d EXCEPT !.data[headers[inde]] =
                            Append(@, [datetime |->
                                          IF Contains(row[inde], "-")
                                          THEN CutDate(row[inde], 1) ELSE row[inde]])],
                       headers, row, inde + 1)
         ELSE HistoricRow([d EXCEPT !.data[headers[inde]] = Append(@, row[inde])],
                          headers, row, inde + 1)

\* get_historic_data, its loop over the rows after the header
RECURSIVE HistoricRows(_, _, _, _)
HistoricRows(d, headers, lines, ind) ==
    IF d.why # "" \/ ind > Len(lines) THEN d
    ELSE HistoricRows(HistoricRow(d, headers, Cells(lines[ind]), 1),
                      headers, lines, ind + 1)

\* PRTGHistoricData.get_historic_data with the dates given as text
get_historic_data(st, self, objid, startdate, enddate, timeaverage) ==
    IF ~Ok(st) THEN st
    ELSE Bind(get_request(st, self,
                          "historicdata.csv?id=" \o objid \o "&avg=" \o timeaverage
                              \o "&sdate=" \o startdate \o "&edate=" \o enddate,
                          TRUE),
              LAMBDA st1 :
                  IF ~Ok(st1) THEN st1
                  ELSE IF st1.resp = NoResp
                       THEN Raise(st1, "AttributeError",
                                  "'NoneType' object has no attribute 'text'")
                  ELSE Bind(SplitOn(st1.resp.text, "\n", 1, ""),
                            LAMBDA pieces :
                                IF Len(pieces) < 3 THEN [st1 EXCEPT !.ret = <<>>]
                                ELSE Bind(HistoricRows(
                                              [why |-> "",
                                               data |-> [h \in Range(Cells(pieces[1]))
                                                            |-> <<>>]],
                                              Cells(pieces[1]),
                                              SubSeq(pieces, 1, Len(pieces) - 2), 2),
                                          LAMBDA d :
                                              IF d.why # "" THEN Raise(st1, d.why, "")
                                              ELSE [st1 EXCEPT !.ret = d.data])))

(***************************************************************************)
(* Garbage: an object no list reachable from the client holds is gone.     *)
(***************************************************************************)
Refs(obj) ==
    Range(obj.probes) \cup Range(obj.groups) \cup Range(obj.devices)
        \cup Range(obj.sensors) \cup Range(obj.channels)
        \cup Range(obj.allprobes) \cup Range(obj.allgroups)
        \cup Range(obj.alldevices) \cup Range(obj.allsensors)
        \cup UNION {Range(obj.sensors_by_status[k]) : k \in DOMAIN obj.sensors_by_status}

RECURSIVE Reach(_, _)
Reach(h, seen) ==
    LET more == UNION {Refs(h[o]) : o \in seen} \ seen
    IN  IF more = {} THEN seen ELSE Reach(h, seen \cup more)

Live(h) == Reach(h, {Root})

Collect(h) == [o \in Live(h) |-> h[o]]

(***************************************************************************)
(* The documents the server answers with: well-formed fragments whose ids  *)
(* are unique per kind under one parent.  Every entity of a document       *)
(* carries the same scalar value v, so two documents of one shape differ   *)
(* in every scalar field.                                                  *)
(***************************************************************************)
Vals == {"a", "b"}

IdStr(i) == ToString(i)

\* the elements of a set of numbers in rising order
RECURSIVE Rising(_)
Rising(S) ==
    IF S = {} THEN <<>>
    ELSE LET m == CHOOSE x \in S : \A y \in S : x <= y
         IN  <<m>> \o Rising(S \ {m})

SubLists == {Rising(S) : S \in SUBSET (1..NumIds)}

\* the status a sensor reports in a document whose scalar value is v
StatusFor(v) == IF v = "a" THEN "Up" ELSE "Down"

SensorFrag(i, v) ==
    Elem("sensor", <<Leaf("id", IdStr(i)), Leaf("name", v), Leaf("status", StatusFor(v))>>)

DeviceFrag(i, v, ss) ==
    Elem("device", <<Leaf("id", IdStr(i)), Leaf("name", v)>>
                       \o [k \in 1..Len(ss) |-> SensorFrag(ss[k], v)])

\* a group or probe node holding the subgroups gg (themselves empty) and the
\* devices dd, each device holding the sensors ss
GroupFrag(tag, i, v, gg, dd, ss) ==
    Elem(tag, <<Leaf("id", IdStr(i)), Leaf("name", v)>>
                  \o [k \in 1..Len(gg) |->
                        Elem("group", <<Leaf("id", IdStr(gg[k])), Leaf("name", v)>>)]
                  \o [k \in 1..Len(dd) |-> DeviceFrag(dd[k], v, ss)])

\* what a group or probe directly under the root may hold: subgroups, or
\* devices, or one device with sensors
Inner ==
    {[gg |-> gg, dd |-> <<>>, ss |-> <<>>] : gg \in SubLists}
        \cup {[gg |-> <<>>, dd |-> dd, ss |-> <<>>] : dd \in SubLists}
        \cup {[gg |-> <<>>, dd |-> <<1>>, ss |-> ss] : ss \in SubLists}

Empty == [gg |-> <<>>, dd |-> <<>>, ss |-> <<>>]

\* the document of the whole tree: one top-level node holding the probes ps,
\* the groups gs and the devices ds
TreeDoc(v, ps, gs, ds, in) ==
    Elem("nodes",
         <<Elem("group",
                <<Leaf("id", "0"), Leaf("name", v)>>
                    \o [k \in 1..Len(ps) |->
                          GroupFrag("probenode", ps[k], v, in.gg, in.dd, in.ss)]
                    \o [k \in 1..Len(gs) |->
                          GroupFrag("group", gs[k], v, in.gg, in.dd, in.ss)]
                    \o [k \in 1..Len(ds) |-> DeviceFrag(ds[k], v, <<>>)])>>)

\* probes only, groups only, devices only, and one group or probe with
\* something in it
TreeDocs ==
    {TreeDoc(v, ps, <<>>, <<>>, Empty) : v \in Vals, ps \in SubLists}
        \cup {TreeDoc(v, <<>>, gs, <<>>, Empty) : v \in Vals, gs \in SubLists}
        \cup {TreeDoc(v, <<>>, <<>>, ds, Empty) : v \in Vals, ds \in SubLists}
        \cup {TreeDoc(v, <<>>, <<1>>, <<>>, in) : v \in Vals, in \in Inner}
        \cup {TreeDoc(v, <<1>>, <<>>, <<>>, [gg |-> <<>>, dd |-> <<1>>, ss |-> <<>>]) :
                v \in Vals}

\* the fragments a group or probe with the id idv is refreshed with
GroupFrags(tag, idv) ==
    {[GroupFrag(tag, 1, v, in.gg, in.dd, in.ss) EXCEPT !.kids[1].text = idv] :
        v \in Vals, in \in Inner}

\* the fragments a device with the id idv is refreshed with
DeviceFrags(idv) ==
    {[DeviceFrag(1, v, ss) EXCEPT !.kids[1].text = idv] : v \in Vals, ss \in SubLists}

\* how many entities a fragment names: what reconciling it can construct
RECURSIVE Entities(_), EntitiesIn(_, _)
Entities(node) ==
    (IF node.tag \in {"probenode", "group", "device", "sensor"} THEN 1 ELSE 0)
        + EntitiesIn(node.kids, 1)

EntitiesIn(kids, i) ==
    IF i > Len(kids) THEN 0 ELSE Entities(kids[i]) + EntitiesIn(kids, i + 1)

Fits(h, soup) == Cardinality(DOMAIN h) + Entities(soup) <= MaxObj

(***************************************************************************)
(* The client: built from a first document, then refreshed.                *)
(***************************************************************************)
EmptyHeap == [o \in {} |-> Blank("free")]

\* no request is answered by anything but a channel list nobody asks for
Quiet == <<Answer(200, "", <<>>)>>

\* an exception nobody catches ends the program: calls are made while none
\* has been raised
Running == err = NoErr

Op(name, self, soup) ==
    [op |-> name, self |-> self, soup |-> soup, status |-> 200, a |-> "", b |-> ""]

Finish(st, op) ==
    /\ heap' = Collect(st.h)
    /\ err' = st.err
    /\ ret' = st.ret
    /\ sent' = st.sent
    /\ out' = st.out
    /\ last' = op
    /\ held' = held

Init ==
    \E doc \in TreeDocs :
        LET st == NewRoot(Begin(EmptyHeap, Quiet), doc, "0")
        IN  /\ heap = Collect(st.h)
            /\ err = st.err
            /\ ret = None
            /\ sent = <<>>
            /\ out = <<>>
            /\ last = Op("PRTGApi", Root, doc)
            /\ held = Root

\* prtg.refresh(doc)
RefreshRoot ==
    \E doc \in TreeDocs :
        /\ Running
        /\ Fits(heap, doc)
        /\ Finish(RootRefresh(Begin(heap, Quiet), Root, doc), Op("refresh", Root, doc))

First == IdStr(1)

\* group.refresh(frag) or probe.refresh(frag) on the first group or probe
\* under the root, the fragment the one the server holds under its id
RefreshGroup ==
    \E g \in {o \in Range(heap[Root].groups) \cup Range(heap[Root].probes) :
                heap[o].id = First} :
        \E frag \in GroupFrags(IF heap[g].cls = "Probe" THEN "probenode" ELSE "group",
                               heap[g].id) :
            /\ Running
            /\ Fits(heap, frag)
            /\ Finish(GroupRefresh(Begin(heap, Quiet), g, frag), Op("refresh", g, frag))

\* device.refresh(frag) on the first device of any parent
RefreshDevice ==
    \E d \in {o \in DOMAIN heap : heap[o].cls = "Device" /\ heap[o].id = First} :
        \E frag \in DeviceFrags(heap[d].id) :
            /\ Running
            /\ Fits(heap, frag)
            /\ Finish(DeviceRefresh(Begin(heap, Quiet), d, frag), Op("refresh", d, frag))

Next == RefreshRoot \/ RefreshGroup \/ RefreshDevice

Spec == Init /\ [][Next]_vars

(***************************************************************************)
(* Search: the client built from a document, then searched by id.          *)
(***************************************************************************)
\* prtg.search_byid(x)
SearchById ==
    \E x \in 0..(NumIds + 1) :
        /\ Running
        /\ heap' = heap
        /\ err' = err
        /\ ret' = search_byid(heap, Root, IdStr(x))
        /\ sent' = <<>>
        /\ out' = <<>>
        /\ last' = [Op("search_byid", Root, NoNode) EXCEPT !.a = IdStr(x)]
        /\ held' = held

SpecSearch == Init /\ [][SearchById]_vars

(***************************************************************************)
(* Scalar children: a tree of one group holding at most one device, built  *)
(* and refreshed with fragments that carry scalar children at one level.   *)
(***************************************************************************)
\* a name given a text, a name given no text, and the name "type"
ScalarLeaves == {Leaf("name", "a"), Leaf("name", None), Leaf("type", "x")}

\* no scalar child, one, and the same name twice
ScalarLists ==
    {<<>>} \cup {<<c>> : c \in ScalarLeaves}
        \cup {<<Leaf("name", "a"), Leaf("name", None)>>,
              <<Leaf("name", None), Leaf("name", "a")>>}

ScalarDevice(ss) == Elem("device", <<Leaf("id", First)>> \o ss)

\* devs is empty or one device fragment
ScalarGroup(ss, devs) == Elem("group", <<Leaf("id", First)>> \o ss \o devs)

ScalarDoc(rs, g) ==
    Elem("nodes", <<Elem("group", <<Leaf("id", "0")>> \o rs \o <<g>>)>>)

ScalarGroups ==
    {ScalarGroup(ss, <<ScalarDevice(<<>>)>>) : ss \in ScalarLists}
        \cup {ScalarGroup(<<>>, <<ScalarDevice(ss)>>) : ss \in ScalarLists}
        \cup {ScalarGroup(<<>>, <<>>)}

ScalarDocs ==
    {ScalarDoc(ss, ScalarGroup(<<>>, <<ScalarDevice(<<>>)>>)) : ss \in ScalarLists}
        \cup {ScalarDoc(<<>>, g) : g \in ScalarGroups}

InitScalar ==
    \E doc \in ScalarDocs :
        LET st == NewRoot(Begin(EmptyHeap, Quiet), doc, "0")
        IN  /\ heap = Collect(st.h)
            /\ err = st.err
            /\ ret = None
            /\ sent = <<>>
            /\ out = <<>>
            /\ last = Op("PRTGApi", Root, doc)
            /\ held = Root

\* prtg.refresh(doc)
RefreshRootScalar ==
    \E doc \in ScalarDocs :
        /\ Running
        /\ Finish(RootRefresh(Begin(heap, Quiet), Root, doc), Op("refresh", Root, doc))

\* group.refresh(frag) on the group under the root
RefreshGroupScalar ==
    \E g \in Range(heap[Root].groups) :
        \E frag \in ScalarGroups :
            /\ Running
            /\ Finish(GroupRefresh(Begin(heap, Quiet), g, frag), Op("refresh", g, frag))

\* device.refresh(frag) on the device of the group
RefreshDeviceScalar ==
    \E d \in {o \in DOMAIN heap : heap[o].cls = "Device"} :
        \E ss \in ScalarLists :
            /\ Running
            /\ Finish(DeviceRefresh(Begin(heap, Quiet), d, ScalarDevice(ss)),
                      Op("refresh", d, ScalarDevice(ss)))

NextScalar == RefreshRootScalar \/ RefreshGroupScalar \/ RefreshDeviceScalar

SpecScalar == InitScalar /\ [][NextScalar]_vars

(***************************************************************************)
(* What the claims speak of.                                               *)
(***************************************************************************)
\* the element name of each typed collection, and its registry
TagOf == [probes |-> "probenode", groups |-> "group", devices |-> "device",
          sensors |-> "sensor"]

RegOf == [probes |-> "allprobes", groups |-> "allgroups", devices |-> "alldevices",
          sensors |-> "allsensors"]

RECURSIVE Flatten(_, _)
Flatten(tops, t) == IF t > Len(tops) THEN <<>> ELSE tops[t].kids \o Flatten(tops, t + 1)

\* the children a fragment gives the entity o: the root client reads the
\* children of the document's top-level nodes
KidsFor(h, o, soup) == IF h[o].cls = "PRTGApi" THEN Flatten(soup.kids, 1) ELSE soup.kids

IsScalar(c) == c.tag \notin {TagOf[l] : l \in DOMAIN TagOf}

\* the fragment of the child of that kind and id
FragOf(kids, tag, idv) ==
    LET hits == {k \in 1..Len(kids) : kids[k].tag = tag /\ Find(kids[k], "id").text = idv}
    IN  kids[CHOOSE k \in hits : \A j \in hits : k <= j]

Names(kids, tag) == Range(NewIds(kids, 1, tag))

\* o and everything below it hold, kind by kind, exactly the ids soup names
RECURSIVE Mirrors(_, _, _)
Mirrors(h, o, soup) ==
    LET kids == KidsFor(h, o, soup)
    IN  \A l \in DOMAIN TagOf :
            LET have == IdsOf(h, h[o][l])
            IN  /\ Range(have) = Names(kids, TagOf[l])
                /\ Len(have) = Cardinality(Range(have))
                /\ \A k \in 1..Len(have) :
                       Mirrors(h, h[o][l][k], FragOf(kids, TagOf[l], have[k]))

\* the scalar fields of o are the ones soup gives
ScalarsFrom(h, o, soup) ==
    LET kids == KidsFor(h, o, soup)
    IN  \A k \in 1..Len(kids) :
            (IsScalar(kids[k]) /\ kids[k].tag \in DOMAIN h[o])
                => h[o][kids[k].tag] = Text(kids[k])

\* o and everything below it: registry and collection of each kind hold the
\* same objects
RECURSIVE RegistriesAgree(_, _)
RegistriesAgree(h, o) ==
    \A l \in DOMAIN TagOf :
        /\ Range(h[o][RegOf[l]]) = Range(h[o][l])
        /\ Len(h[o][RegOf[l]]) = Len(h[o][l])
        /\ \A k \in 1..Len(h[o][l]) : RegistriesAgree(h, h[o][l][k])

Refreshed == last.op = "refresh"

\* the refresh named by last, run once more on the state it left
Again ==
    LET st == Begin(heap, Quiet)
    IN  IF last.self = Root THEN RootRefresh(st, Root, last.soup)
        ELSE IF heap[last.self].cls = "Device" THEN DeviceRefresh(st, last.self, last.soup)
        ELSE GroupRefresh(st, last.self, last.soup)

(***************************************************************************)
(* C1: every refresh with a well-formed fragment returns, and leaves each  *)
(* collection at every level below the refreshed entity holding exactly    *)
(* the ids of its kind that the fragment names there.                      *)
(***************************************************************************)
C1_RefreshMirrorsFragment ==
    Refreshed => (err = NoErr /\ Mirrors(heap, last.self, last.soup))

(***************************************************************************)
(* C2: a child that the parent held before a refresh and that the fragment *)
(* names again is the same object afterwards, carries the scalar values of *)
(* the fragment and holds below it what the fragment names below it.       *)
(***************************************************************************)
C2_ReconciledInPlace ==
    [][(last'.op = "refresh" /\ last'.self \in DOMAIN heap) =>
          LET o    == last'.self
              kids == KidsFor(heap, o, last'.soup)
          IN  \A l \in DOMAIN TagOf :
                  \A k \in 1..Len(heap[o][l]) :
                      LET x == heap[o][l][k]
                      IN  heap[x].id \in Names(kids, TagOf[l]) =>
                              /\ x \in DOMAIN heap'
                              /\ Has(heap'[o][l], x)
                              /\ heap'[x].id = heap[x].id
                              /\ ScalarsFrom(heap', x, FragOf(kids, TagOf[l], heap[x].id))
                              /\ Mirrors(heap', x, FragOf(kids, TagOf[l], heap[x].id))]_vars

\* A refresh left the second entity ahead of the first in a collection whose
\* fragment names both in rising order: the second was held before the first
\* arrived, so this refresh found it in place.
C2_Witness ==
    /\ Refreshed
    /\ \E l \in DOMAIN TagOf :
           /\ IdsOf(heap, heap[last.self][l]) = <<IdStr(2), IdStr(1)>>
           /\ NewIds(KidsFor(heap, last.self, last.soup), 1, TagOf[l])
                  = <<IdStr(1), IdStr(2)>>

(***************************************************************************)
(* C3: after every reconciliation the registry of each kind holds the      *)
(* objects of the collection, at the root and at every level below: what   *)
(* was constructed is registered, what was removed is in neither.          *)
(***************************************************************************)
C3_RegistriesFollow == Refreshed => RegistriesAgree(heap, last.self)

BothDocs ==
    {TreeDoc(v, <<>>, <<1>>, ds, [gg |-> <<>>, dd |-> dd, ss |-> <<>>]) :
        v \in Vals, ds \in SubLists, dd \in SubLists}

InitBoth ==
    \E doc \in BothDocs :
        LET st == NewRoot(Begin(EmptyHeap, Quiet), doc, "0")
        IN  /\ heap = Collect(st.h)
            /\ err = st.err
            /\ ret = None
            /\ sent = <<>>
            /\ out = <<>>
            /\ last = Op("PRTGApi", Root, doc)
            /\ held = Root

\* prtg.refresh(doc)
RefreshRootBoth ==
    \E doc \in BothDocs :
        /\ Running
        /\ Fits(heap, doc)
        /\ Finish(RootRefresh(Begin(heap, Quiet), Root, doc), Op("refresh", Root, doc))

\* group.refresh(frag) on the group under the root, the fragment naming devices
RefreshGroupDevices ==
    \E g \in Range(heap[Root].groups) :
        \E v \in Vals, dd \in SubLists :
            LET frag == GroupFrag("group", 1, v, <<>>, dd, <<>>)
            IN  /\ Running
                /\ Fits(heap, frag)
                /\ Finish(GroupRefresh(Begin(heap, Quiet), g, frag),
                          Op("refresh", g, frag))

NextBoth == RefreshRootBoth \/ RefreshGroupDevices

SpecBoth == InitBoth /\ [][NextBoth]_vars

(***************************************************************************)
(* C5: whenever the root and a group hold device collections and device    *)
(* registries of the same ids, handing both the same device children       *)
(* leaves both with the same ids in the collection, the same ids in the    *)
(* registry and the same outcome.                                          *)
(***************************************************************************)
C5_RootAsGroup ==
    \A g \in Range(heap[Root].groups) :
        (/\ IdsOf(heap, heap[Root].devices) = IdsOf(heap, heap[g].devices)
         /\ IdsOf(heap, heap[Root].alldevices) = IdsOf(heap, heap[g].alldevices))
        => \A v \in Vals, dd \in SubLists :
               LET r == RootRefresh(Begin(heap, Quiet), Root,
                                    TreeDoc(v, <<>>, <<1>>, dd, Empty))
                   q == GroupRefresh(Begin(heap, Quiet), g,
                                     GroupFrag("group", 1, v, <<>>, dd, <<>>))
               IN  /\ r.err = q.err
                   /\ IdsOf(r.h, r.h[Root].devices) = IdsOf(q.h, q.h[g].devices)
                   /\ IdsOf(r.h, r.h[Root].alldevices) = IdsOf(q.h, q.h[g].alldevices)

(***************************************************************************)
(* A caller working with one node: the client is built from a document     *)
(* with one entity of every kind, one sensor's channels are fetched, and   *)
(* the caller then calls the node operations on the node it holds, each    *)
(* request answered by the server with some status.                        *)
(***************************************************************************)
MaxAnswers == 2      \* lines the user types at one prompt

Statuses == {200, 401, 404, 500}
Durations == {0, 60}
Messages == {"", "maintenance"}
NewNames == {"x", "y"}
PropNames == {"name", "tags"}
PropVals == {"x", "t"}
Keys == {"", "Y", "y", "N", "x"}
Verbs == {"getstatus.htm?id=0", "public/login.htm?x=1"}

Typed == UNION {[1..n -> Keys] : n \in 1..MaxAnswers}

NodeDoc == TreeDoc("a", <<1>>, <<1>>, <<1>>, [gg |-> <<>>, dd |-> <<1>>, ss |-> <<1>>])

ChannelItem ==
    Elem("item", <<Leaf("name", "a"), Leaf("lastvalue_", "1"), Leaf("objid", "2")>>)

Served(status) == <<Answer(status, "ok", <<>>)>>

Truth(b) == IF b THEN "True" ELSE "False"

NodeOp(name, self, status, a, b) ==
    [op |-> name, self |-> self, soup |-> NoNode, status |-> status, a |-> a, b |-> b]

InitNode ==
    LET st0 == NewRoot(Begin(EmptyHeap, Quiet), NodeDoc, "0")
        s   == CHOOSE x \in DOMAIN st0.h : st0.h[x].cls = "Sensor"
        st  == get_channels([st0 EXCEPT !.net = <<Answer(200, "", <<ChannelItem>>)>>], s)
    IN  /\ heap = Collect(st.h)
        /\ err = st.err
        /\ ret = None
        /\ sent = <<>>
        /\ out = <<>>
        /\ last = Op("PRTGApi", Root, NodeDoc)
        /\ held \in DOMAIN Collect(st.h)

IsChannel(o) == heap[o].cls = "Channel"

\* node.rename(newname)
Rename ==
    \E status \in Statuses, newname \in NewNames :
        LET st == Begin(heap, Served(status))
        IN  /\ Running
            /\ Finish(IF IsChannel(held) THEN ChannelRename(st, held, newname)
                      ELSE rename(st, held, newname),
                      NodeOp("rename", held, status, newname, ""))

\* node.pause(duration, message)
Pause ==
    \E status \in Statuses, duration \in Durations, message \in Messages :
        LET st == Begin(heap, Served(status))
        IN  /\ Running
            /\ Finish(IF IsChannel(held) THEN ChannelPause(st, held, duration, message)
                      ELSE pause(st, held, duration, message),
                      NodeOp("pause", held, status, ToString(duration), message))

\* node.resume()
Resume ==
    \E status \in Statuses :
        LET st == Begin(heap, Served(status))
        IN  /\ Running
            /\ Finish(IF IsChannel(held) THEN ChannelResume(st, held)
                      ELSE resume(st, held),
                      NodeOp("resume", held, status, "", ""))

\* node.set_property(name, value)
SetProperty ==
    \E status \in Statuses, name \in PropNames, value \in PropVals :
        /\ Running
        /\ Finish(set_property(Begin(heap, Served(status)), held, name, value),
                  NodeOp("set_property", held, status, name, value))

\* node.delete(confirm), the user typing lines that end the prompt
Delete ==
    \E status \in Statuses, confirm \in BOOLEAN, answers \in Typed :
        LET st == Begin(heap, Served(status))
        IN  /\ Running
            /\ Prompt(answers, 1, "") # None
            /\ Prompt(SubSeq(answers, 1, Len(answers) - 1), 1, "") = None
            /\ Finish(IF IsChannel(held) THEN ChannelDelete(st, held, confirm)
                      ELSE delete(st, held, confirm, answers),
                      NodeOp("delete", held, status, Truth(confirm),
                             Prompt(answers, 1, "")))

\* node.get_request(url_string, api), what it returns handed on: the body of
\* the response, None when it returned None
Request ==
    \E status \in Statuses, url_string \in Verbs, api \in BOOLEAN :
        /\ Running
        /\ Finish(Bind(get_request(Begin(heap, Served(status)), held, url_string, api),
                       LAMBDA st : [st EXCEPT !.ret = IF Ok(st) /\ st.resp # NoResp
                                                     THEN st.resp.text ELSE None]),
                  NodeOp("get_request", held, status, url_string, Truth(api)))

NextNode == Rename \/ Pause \/ Resume \/ SetProperty \/ Delete \/ Request

SpecNode == InitNode /\ [][NextNode]_vars

(***************************************************************************)
(* Malformed documents: fragments in which an id appears twice among the   *)
(* children of one kind, or in which a structural child has no id.  The    *)
(* client is built from such a document and refreshed with such fragments. *)
(***************************************************************************)
MaxKids == 2     \* children of one kind in a malformed fragment

\* the lists of ids a malformed fragment may name: the id 1 may repeat, and 0
\* stands for a child that carries no id
OddLists == UNION {[1..n -> 0..1] : n \in 0..MaxKids}

OddSensor(x, v) ==
    IF x = 0 THEN Elem("sensor", <<Leaf("name", v), Leaf("status", StatusFor(v))>>)
    ELSE SensorFrag(x, v)

OddDevice(x, v, ss) ==
    Elem("device", (IF x = 0 THEN <<>> ELSE <<Leaf("id", IdStr(x))>>)
                       \o <<Leaf("name", v)>>
                       \o [k \in 1..Len(ss) |-> OddSensor(ss[k], v)])

\* what the group under the root may hold: devices without sensors, or one
\* device, with or without an id of its own, holding sensors
OddInner ==
    {[dd |-> dd, ss |-> <<>>] : dd \in OddLists}
        \cup {[dd |-> <<1>>, ss |-> ss] : ss \in OddLists}
        \cup {[dd |-> <<0>>, ss |-> <<1>>]}

OddGroup(v, in) ==
    Elem("group", <<Leaf("id", "1"), Leaf("name", v)>>
                      \o [k \in 1..Len(in.dd) |-> OddDevice(in.dd[k], v, in.ss)])

OddDoc(v, in) ==
    Elem("nodes", <<Elem("group", <<Leaf("id", "0"), Leaf("name", v), OddGroup(v, in)>>)>>)

InitOdd ==
    \E in \in OddInner :
        LET st == NewRoot(Begin(EmptyHeap, Quiet), OddDoc("a", in), "0")
        IN  /\ heap = Collect(st.h)
            /\ err = st.err
            /\ ret = None
            /\ sent = <<>>
            /\ out = <<>>
            /\ last = Op("PRTGApi", Root, OddDoc("a", in))
            /\ held = Root

\* group.refresh(frag) on the group under the root
RefreshGroupOdd ==
    \E g \in Range(heap[Root].groups), v \in Vals, in \in OddInner :
        /\ Running
        /\ Fits(heap, OddGroup(v, in))
        /\ Finish(GroupRefresh(Begin(heap, Quiet), g, OddGroup(v, in)),
                  Op("refresh", g, OddGroup(v, in)))

\* device.refresh(frag) on any device of the group
RefreshDeviceOdd ==
    \E d \in {o \in DOMAIN heap : heap[o].cls = "Device"}, v \in Vals, ss \in OddLists :
        /\ Running
        /\ Fits(heap, OddDevice(1, v, ss))
        /\ Finish(DeviceRefresh(Begin(heap, Quiet), d, OddDevice(1, v, ss)),
                  Op("refresh", d, OddDevice(1, v, ss)))

NextOdd == RefreshGroupOdd \/ RefreshDeviceOdd

SpecOdd == InitOdd /\ [][NextOdd]_vars

(***************************************************************************)
(* Channels: the client constructed, then the channels of its sensor       *)
(* fetched and the sensor refreshed, the server answering the channel      *)
(* request with any status and any list of channels.                       *)
(***************************************************************************)
ChannelItemFor(i, v) ==
    Elem("item", <<Leaf("name", v), Leaf("lastvalue_", "1"), Leaf("objid", IdStr(i))>>)

\* the channel table the server answers with, parsed
ChannelTable(ids, v) ==
    Elem("channels", [k \in 1..Len(ids) |-> ChannelItemFor(ids[k], v)])

ChanOp(name, self, status, table, v) ==
    [op |-> name, self |-> self, soup |-> table, status |-> status, a |-> v, b |-> ""]

InitChan ==
    LET st == NewRoot(Begin(EmptyHeap, Quiet), NodeDoc, "0")
    IN  /\ heap = Collect(st.h)
        /\ err = st.err
        /\ ret = None
        /\ sent = <<>>
        /\ out = <<>>
        /\ last = Op("PRTGApi", Root, NodeDoc)
        /\ held = CHOOSE x \in DOMAIN Collect(st.h) : st.h[x].cls = "Sensor"

\* sensor.get_channels()
GetChannels ==
    \E status \in Statuses, ids \in SubLists, v \in Vals :
        /\ Running
        /\ Finish(get_channels(
                      Begin(heap, <<Answer(status, "", ChannelTable(ids, v).kids)>>), held),
                  ChanOp("get_channels", held, status, ChannelTable(ids, v), v))

\* sensor.refresh(frag), the fragment the one the server holds under its id
RefreshSensor ==
    \E status \in Statuses, ids \in SubLists, v \in Vals :
        /\ Running
        /\ Finish(SensorRefresh(
                      Begin(heap, <<Answer(status, "", ChannelTable(ids, v).kids)>>),
                      held, SensorFrag(1, v)),
                  ChanOp("refresh", held, status, ChannelTable(ids, v), v))

NextChan == GetChannels \/ RefreshSensor

SpecChan == InitChan /\ [][NextChan]_vars

(***************************************************************************)
(* Channels on demand: the client constructed, then get_channels and       *)
(* refresh called on one sensor, and the whole tree refreshed.             *)
(***************************************************************************)
\* PRTGApi(...): the requests construction made are kept
InitLazy ==
    LET st == NewRoot(Begin(EmptyHeap, <<Answer(200, "", ChannelTable(<<1>>, "a").kids)>>),
                      NodeDoc, "0")
    IN  /\ heap = Collect(st.h)
        /\ err = st.err
        /\ ret = None
        /\ sent = st.sent
        /\ out = <<>>
        /\ last = Op("PRTGApi", Root, NodeDoc)
        /\ held = CHOOSE x \in DOMAIN Collect(st.h) : st.h[x].cls = "Sensor"

\* prtg.refresh(doc) with the document the client was built from, the server
\* ready to answer one request with a channel table
RefreshTree ==
    \E status \in Statuses, ids \in SubLists, v \in Vals :
        /\ Running
        /\ Finish(RootRefresh(
                      Begin(heap, <<Answer(status, "", ChannelTable(ids, v).kids)>>),
                      Root, NodeDoc),
                  ChanOp("refresh", Root, status, ChannelTable(ids, v), v))

SpecLazy == InitLazy /\ [][GetChannels \/ RefreshSensor \/ RefreshTree]_vars

(***************************************************************************)

(* Deletion: the client constructed, then delete called on one node, the   *)
(* lines the user typed at the prompt kept with the call.                  *)
(***************************************************************************)
\* node.delete(confirm), the user typing lines that end the prompt
DeleteTyped ==
    \E status \in Statuses, confirm \in BOOLEAN, answers \in Typed :
        LET st == Begin(heap, Served(status))
        IN  /\ Running
            /\ Prompt(answers, 1, "") # None
            /\ Prompt(SubSeq(answers, 1, Len(answers) - 1), 1, "") = None
            /\ Finish(IF IsChannel(held) THEN ChannelDelete(st, held, confirm)
                      ELSE delete(st, held, confirm, answers),
                      [typed |-> answers]
                          @@ NodeOp("delete", held, status, Truth(confirm),
                                    Prompt(answers, 1, "")))

NextDelete == DeleteTyped

SpecDelete == InitNode /\ [][NextDelete]_vars

(***************************************************************************)
(* The wrappers of set_property: the client constructed, then add_tags on  *)
(* one node and set_host on a device.  The server holds a list of tags and *)
(* answers a read of the property with the list joined by spaces.          *)
(***************************************************************************)
\* node.add_tags(tags, clear_old): the read is answered with some status,
\* the write with 200
AddTags ==
    \E status \in Statuses, clear_old \in BOOLEAN,
       held_tags \in {<<>>, <<"t">>, <<"t", "u">>},
       tags \in {[list |-> FALSE, items |-> <<"a">>], [list |-> TRUE, items |-> <<>>],
                 [list |-> TRUE, items |-> <<"a">>], [list |-> TRUE, items |-> <<"a", "b">>]} :
        /\ Running
        /\ Finish(add_tags(
                      Begin(heap,
                            IF clear_old THEN <<Answer(status, "", <<>>)>>
                            ELSE <<Answer(status, "",
                                          <<Elem("prtg", <<Leaf("result", Join(held_tags))>>)>>),
                                   Answer(200, "", <<>>)>>),
                      held, tags, clear_old),
                  [tags |-> tags, held_tags |-> held_tags]
                      @@ NodeOp("add_tags", held, status, "", Truth(clear_old)))

\* device.set_host(host)
SetHost ==
    \E status \in Statuses, host \in {"prtg", "other"} :
        /\ Running
        /\ heap[held].cls = "Device"
        /\ Finish(set_host(Begin(heap, Served(status)), held, host),
                  NodeOp("set_host", held, status, host, ""))

SpecWrap == InitNode /\ [][AddTags \/ SetHost]_vars

(***************************************************************************)
(* The standalone objects: a caller constructs one, and asks a historic    *)
(* data object it constructed for a table.                                 *)
(***************************************************************************)
Confs ==
    {[host |-> h, port |-> p, user |-> "admin", passhash |-> "0000",
      protocol |-> pr, verify |-> v] :
        h \in {"prtg", "other"}, p \in {"443", "80"}, pr \in {"https", "http"},
        v \in {"True", "False"}}

InitAlone ==
    /\ heap = EmptyHeap
    /\ err = NoErr
    /\ ret = None
    /\ sent = <<>>
    /\ out = <<>>
    /\ last = Op("none", Root, NoNode)
    /\ held = Root

\* what a caller's program leaves behind
Left(st, op) ==
    /\ heap' = st.h
    /\ err' = st.err
    /\ ret' = st.ret
    /\ sent' = st.sent
    /\ out' = st.out
    /\ last' = op
    /\ held' = held

\* PRTGDevice(...), PRTGSensor(...) or PRTGHistoricData(...)
Construct ==
    \E cls \in {"PRTGDevice", "PRTGSensor", "PRTGHistoricData"},
       confdata \in Confs, id \in 1..NumIds :
        /\ Running
        /\ Left(IF cls = "PRTGDevice"
                THEN PRTGDeviceNew(Begin(EmptyHeap, Quiet), confdata, IdStr(id))
                ELSE IF cls = "PRTGSensor"
                THEN PRTGSensorNew(Begin(EmptyHeap, Quiet), confdata, IdStr(id))
                ELSE PRTGHistoricDataNew(Begin(EmptyHeap, Quiet), confdata),
                [conf |-> confdata] @@ NodeOp(cls, Root, 200, IdStr(id), ""))

\* PRTGHistoricData(...).get_historic_data(objid, startdate, enddate,
\* timeaverage), the server answering with a table of two columns followed by
\* the two lines that are dropped
HistoricData ==
    \E confdata \in Confs, status \in Statuses,
       csv \in {[text |-> "a,b\nSums,0\nAvg,0", headers |-> <<"a", "b">>, rows |-> <<>>],
                [text |-> "a,b\n1,2\nSums,0\nAvg,0", headers |-> <<"a", "b">>,
                 rows |-> <<<<"1", "2">>>>],
                [text |-> "a,b\n1,2\n3,4\nSums,0\nAvg,0", headers |-> <<"a", "b">>,
                 rows |-> <<<<"1", "2">>, <<"3", "4">>>>]} :
        /\ Running
        /\ Left(get_historic_data(
                    PRTGHistoricDataNew(Begin(EmptyHeap, <<Answer(status, csv.text, <<>>)>>),
                                        confdata),
                    Root, "1", "2020-01-01-00-00-00", "2020-01-02-00-00-00", "0"),
                [conf |-> confdata, csv |-> csv]
                    @@ NodeOp("get_historic_data", Root, status, "1", "0"))

SpecAlone == InitAlone /\ [][Construct \/ HistoricData]_vars

(***************************************************************************)
(* Scalars that a later fragment leaves out: a group holding a device with *)
(* one sensor, the group or the sensor paused and resumed, the group       *)
(* refreshed with fragments that name some scalar children and not others. *)
(***************************************************************************)
KeepLists ==
    {<<>>, <<Leaf("name", "a")>>, <<Leaf("name", "b")>>, <<Leaf("status", "Up")>>}

\* the fragment of the group: gs its own scalar children, ss those of the sensor
KeepGroup(gs, ss) ==
    Elem("group",
         <<Leaf("id", First)>> \o gs
             \o <<Elem("device",
                       <<Leaf("id", First),
                         Elem("sensor", <<Leaf("id", First)>> \o ss)>>)>>)

InitKeep ==
    \E gs \in KeepLists, ss \in KeepLists :
        LET doc == ScalarDoc(<<>>, KeepGroup(gs, ss))
            st  == NewRoot(Begin(EmptyHeap, Quiet), doc, "0")
        IN  /\ heap = Collect(st.h)
            /\ err = st.err
            /\ ret = None
            /\ sent = <<>>
            /\ out = <<>>
            /\ last = Op("PRTGApi", Root, doc)
            /\ held \in {o \in DOMAIN Collect(st.h) : st.h[o].cls \in {"Group", "Sensor"}}

\* group.refresh(frag)
RefreshGroupKeep ==
    \E g \in Range(heap[Root].groups) :
        \E gs \in KeepLists, ss \in KeepLists :
            /\ Running
            /\ Finish(GroupRefresh(Begin(heap, Quiet), g, KeepGroup(gs, ss)),
                      Op("refresh", g, KeepGroup(gs, ss)))

\* node.pause() on the group or the sensor
PauseKeep ==
    \E status \in {200, 404} :
        /\ Running
        /\ Finish(pause(Begin(heap, Served(status)), held, 0, ""),
                  NodeOp("pause", held, status, "0", ""))

\* node.resume() on the group or the sensor
ResumeKeep ==
    \E status \in {200, 404} :
        /\ Running
        /\ Finish(resume(Begin(heap, Served(status)), held),
                  NodeOp("resume", held, status, "", ""))

SpecKeep == InitKeep /\ [][RefreshGroupKeep \/ PauseKeep \/ ResumeKeep]_vars

(***************************************************************************)
(* Properties of a node: the client constructed, then get_property and     *)
(* set_property on one node.                                               *)
(***************************************************************************)
GetNames == {"name", "status"}

\* the bodies the server answers getobjectproperty.htm with, parsed
Bodies ==
    {<<Elem("prtg", <<Leaf("version", "1"), Leaf("result", "(Property not found)")>>)>>,
     <<Elem("prtg", <<Leaf("version", "1"), Leaf("result", "up")>>)>>,
     <<Elem("prtg", <<Leaf("version", "1"), Leaf("result", "down")>>)>>,
     <<Elem("prtg", <<Leaf("version", "1")>>)>>}

\* the text of the <result> element of a body, None when it has none
ResultOf(body) ==
    IF FindIn(body, 1, "result") = NoNode THEN None
    ELSE Text(FindIn(body, 1, "result"))

\* node.get_property(name)
GetProperty ==
    \E status \in Statuses, name \in GetNames, body \in Bodies :
        /\ Running
        /\ Finish(get_property(Begin(heap, <<Answer(status, "", body)>>), held, name),
                  NodeOp("get_property", held, status, name, ResultOf(body)))

NextProp == GetProperty \/ SetProperty

SpecProp == InitNode /\ [][NextProp]_vars

\* the fields an operation on a node may write
Fields == {"name", "status", "status_raw", "active"}

\* the error each rejecting status stands for
Rejects == [s \in {401, 404} |->
                IF s = 401 THEN "AuthenticationError" ELSE "ResourceNotFound"]

(***************************************************************************)
(* C6: pause of a node that is not a channel leaves status "Paused",       *)
(* active "false" and status_raw "7" when the server answered 200, and     *)
(* for every other answer leaves the three fields as they were.            *)
(***************************************************************************)
C6_PausedOnlyOnSuccess ==
    [][(last'.op = "pause" /\ heap[last'.self].cls # "Channel") =>
          LET o == last'.self
          IN  IF last'.status = 200
              THEN /\ heap'[o].status = "Paused"
                   /\ heap'[o].active = "false"
                   /\ heap'[o].status_raw = "7"
              ELSE /\ heap'[o].status = heap[o].status
                   /\ heap'[o].active = heap[o].active
                   /\ heap'[o].status_raw = heap[o].status_raw]_vars

(***************************************************************************)
(* C7: get_request answered with a status other than 200, 401 and 404      *)
(* raises an error; it does not return.                                    *)
(***************************************************************************)
C7_UnknownStatusRaises ==
    (last.op = "get_request" /\ last.status \notin {200, 401, 404}) => err # NoErr

(***************************************************************************)
(* C8: get_request answered with 200 returns the response; answered with   *)
(* 401 it raises AuthenticationError; answered with 404 it raises          *)
(* ResourceNotFound with a message that contains the URL requested, which  *)
(* is the base URL, the verb path, "&" and the authentication fragment.    *)
(***************************************************************************)
C8_StatusClassified ==
    last.op = "get_request" =>
        LET base == ConfData.protocol \o "://" \o ConfData.host \o ":" \o ConfData.port
                        \o (IF last.b = "True" THEN "/api/" ELSE "/")
            auth == "username=" \o ConfData.user \o "&passhash=" \o ConfData.passhash
        IN  /\ sent = <<base \o last.a \o "&" \o auth>>
            /\ last.status = 200 => (err = NoErr /\ ret = "ok")
            /\ last.status = 401 => err.type = "AuthenticationError"
            /\ last.status = 404 =>
                   (err.type = "ResourceNotFound" /\ Contains(err.msg, sent[1]))

\* a request was answered with 404 and the error raised
C8_Witness ==
    last.op = "get_request" /\ last.status = 404 /\ err.type = "ResourceNotFound"

(***************************************************************************)
(* C9: rename, pause, resume and set_property answered with 401 or 404     *)
(* raise the error of that status and leave name, status, status_raw and   *)
(* active of the node as they were; rename answered with 200 returns and   *)
(* leaves the name equal to the new name.                                  *)
(***************************************************************************)
C9_RejectedLeavesFields ==
    [][last'.op \in {"rename", "pause", "resume", "set_property"} =>
          LET o == last'.self
          IN  /\ last'.status \in DOMAIN Rejects =>
                     /\ err'.type = Rejects[last'.status]
                     /\ \A f \in Fields : heap'[o][f] = heap[o][f]
              /\ (last'.op = "rename" /\ last'.status = 200) =>
                     (err' = NoErr /\ heap'[o].name = last'.a)]_vars

\* a rename to a name the node did not carry was rejected with 404
C9_Witness ==
    /\ last.op = "rename"
    /\ last.status = 404
    /\ err.type = "ResourceNotFound"
    /\ heap[last.self].name # last.a

(***************************************************************************)
(* C10: delete called on the root client sends no request, raises nothing  *)
(* and returns the text that says the root cannot be deleted, whatever     *)
(* confirm is and whatever the user types.                                 *)
(***************************************************************************)
C10_RootDeleteRejected ==
    (last.op = "delete" /\ last.self = Root) =>
        (sent = <<>> /\ err = NoErr /\ ret = "You cannot delete the root object.")

\* the sensor that holds the channel c
OwnerOf(h, c) == CHOOSE s \in DOMAIN h : Has(h[s].channels, c)

(***************************************************************************)
(* C11: pause and resume called on a channel send one request, addressed   *)
(* to the id of the sensor that holds the channel, and print a notice.     *)
(***************************************************************************)
C11_ChannelRedirects ==
    (last.op \in {"pause", "resume"} /\ heap[last.self].cls = "Channel") =>
        /\ Len(sent) = 1
        /\ Contains(sent[1], "?id=" \o heap[OwnerOf(heap, last.self)].id \o "&")
        /\ out # <<>>

(* C12: set_property and get_property address a channel by the id of the sensor that holds it and the channel's own objid as subid; every other node is addressed by its own id and no subid. *)
C12_DualAddressing ==
    last.op \in {"set_property", "get_property"} =>
        /\ Len(sent) = 1
        /\ IF heap[last.self].cls = "Channel"
           THEN Contains(sent[1], "?id=" \o heap[OwnerOf(heap, last.self)].id
                                     \o "&subid=" \o heap[last.self].objid \o "&name=")
           ELSE /\ Contains(sent[1], "?id=" \o heap[last.self].id \o "&name=")
                /\ ~Contains(sent[1], "subid")

\* the buckets of a device that hold the sensor s, one entry per place held
PlacesOf(d, s) ==
    {<<k, i>> \in UNION {{k} \X (1..Len(heap[d].sensors_by_status[k])) :
                            k \in DOMAIN heap[d].sensors_by_status} :
        heap[d].sensors_by_status[k][i] = s}

(* C13: for every device, constructed or refreshed, each of its sensors is in exactly one bucket of sensors_by_status, the bucket of its current status, and the buckets hold no sensor that is not one of the device's sensors. *)
C13_BucketsFollowSensors ==
    \A d \in DOMAIN heap :
        heap[d].cls = "Device" =>
            /\ \A s \in Range(heap[d].sensors) :
                   \E k \in DOMAIN heap[d].sensors_by_status :
                       /\ k = heap[s].status
                       /\ \E i \in 1..Len(heap[d].sensors_by_status[k]) :
                              PlacesOf(d, s) = {<<k, i>>}
            /\ \A k \in DOMAIN heap[d].sensors_by_status :
                   Range(heap[d].sensors_by_status[k]) \subseteq Range(heap[d].sensors)

(* C14: at every moment, after construction and after every refresh, an entity built from a probenode fragment has the type "Probe" and an entity built from a group fragment has the type "Group". *)
C14_TypeTags ==
    \A o \in DOMAIN heap :
        /\ heap[o].cls = "Probe" => heap[o].type = "Probe"
        /\ heap[o].cls = "Group" => heap[o].type = "Group"

\* the structural children of a fragment, and the id each carries itself
Structural == {"probenode", "group", "device", "sensor"}

OwnId(node) ==
    IF \E i \in 1..Len(node.kids) : node.kids[i].tag = "id"
    THEN node.kids[CHOOSE i \in 1..Len(node.kids) : node.kids[i].tag = "id"].text
    ELSE None

\* some element of the fragment has two children of one kind with one id
RECURSIVE NamesTwice(_)
NamesTwice(node) ==
    \/ \E i, j \in 1..Len(node.kids) :
           /\ i < j
           /\ node.kids[i].tag \in Structural
           /\ node.kids[i].tag = node.kids[j].tag
           /\ OwnId(node.kids[i]) # None
           /\ OwnId(node.kids[i]) = OwnId(node.kids[j])
    \/ \E i \in 1..Len(node.kids) : NamesTwice(node.kids[i])

\* some structural child in the fragment carries no id
RECURSIVE LacksId(_)
LacksId(node) ==
    \E i \in 1..Len(node.kids) :
        \/ node.kids[i].tag \in Structural /\ OwnId(node.kids[i]) = None
        \/ LacksId(node.kids[i])

(* C15: in every state reached by constructing the tree and refreshing it with arbitrary fragments, no collection of probes, groups, devices or sensors of one parent holds two entities with the same id. *)
C15_IdsUnique ==
    \A o \in DOMAIN heap :
        \A coll \in {"probes", "groups", "devices", "sensors"} :
            \A i, j \in 1..Len(heap[o][coll]) :
                heap[heap[o][coll][i]].id = heap[heap[o][coll][j]].id => i = j

(* C16: constructing from or refreshing with a fragment that names one id twice among the children of one kind ends in an error. *)
C16_DuplicateRejected ==
    (last.op \in {"PRTGApi", "refresh"} /\ NamesTwice(last.soup)) => err # NoErr

(* C17: constructing from or refreshing with a fragment holding a structural child without an id ends in an error that is neither AuthenticationError nor ResourceNotFound, and no entity with a default id comes of it. *)
C17_MissingIdRejected ==
    (last.op \in {"PRTGApi", "refresh"} /\ LacksId(last.soup)) =>
        /\ err # NoErr
        /\ err.type \notin {"AuthenticationError", "ResourceNotFound"}
        /\ \A o \in DOMAIN heap : o # Root => heap[o].id # "0"

\* the answer of the step taken names the channel c
Answered(c) ==
    /\ last'.status = 200
    /\ \E i \in 1..Len(last'.soup.kids) :
           Find(last'.soup.kids[i], "objid").text = heap[c].objid

(* C18: over every get_channels call and every sensor refresh, each channel the sensor held before is still in its channels afterwards, at the same place, and a channel the answer does not name keeps every field value it had. *)
C18_ChannelsNeverPruned ==
    [][\A c \in Range(heap[held].channels) :
           /\ held \in DOMAIN heap'
           /\ Len(heap'[held].channels) >= Len(heap[held].channels)
           /\ heap'[held].channels[IndexOf(heap[held].channels, c)] = c
           /\ ~Answered(c) => heap'[c] = heap[c]]_vars

\* get_channels answered with one channel while the sensor holds two: the
\* other one is still held
C18_Witness ==
    /\ last.op \in {"get_channels", "refresh"}
    /\ last.status = 200
    /\ err = NoErr
    /\ Len(heap[held].channels) = 2
    /\ Len(last.soup.kids) = 1
    /\ \E c \in Range(heap[held].channels) :
           /\ heap[c].objid # Find(last.soup.kids[1], "objid").text
           /\ heap[c].name # last.a

(* C19: get_property answered with a body whose result text is "(Property not found)" raises ResourceNotFound and changes no field of any entity; answered with any other result text it stores that text under the property's name on the entity, changes nothing else, and returns the text. *)
C19_PropertyStoredOrRefused ==
    [][(last'.op = "get_property" /\ last'.status = 200 /\ last'.b # None) =>
           IF last'.b = "(Property not found)"
           THEN /\ err'.type = "ResourceNotFound"
                /\ Contains(err'.msg, last'.a)
                /\ heap' = heap
           ELSE /\ err' = NoErr
                /\ ret' = last'.b
                /\ heap' = [heap EXCEPT ![held][last'.a] = last'.b]]_vars

\* a property was read and stored, and a later read of a property the server
\* does not know was refused
C19_Witness ==
    /\ last.op = "get_property"
    /\ last.status = 200
    /\ last.b = "(Property not found)"
    /\ err.type = "ResourceNotFound"
    /\ heap[held].status \in {"up", "down"}

(* C20: delete with confirm=True on an entity that is neither the root nor a channel prompts once per line the user types and sends the delete request, once, exactly when the line that ends the prompt is Y or y; an empty line or N ends it without a request. With confirm=False it prompts nothing and sends exactly one delete request. *)
C20_DeleteAsksFirst ==
    (last.op = "delete" /\ heap[last.self].cls \notin {"PRTGApi", "Channel"}) =>
        /\ \A i \in 1..Len(sent) :
               Contains(sent[i], "deleteobject.htm?id=" \o heap[last.self].id \o "&approve=1")
        /\ IF last.a = "True"
           THEN /\ out = [k \in 1..Len(last.typed) |-> PromptLine]
                /\ Len(sent) = IF last.typed[Len(last.typed)] \in {"Y", "y"} THEN 1 ELSE 0
           ELSE /\ out = <<>>
                /\ Len(sent) = 1

\* the user typed something else first and then y: two prompts, one request
C20_Witness ==
    /\ last.op = "delete"
    /\ heap[last.self].cls = "Device"
    /\ last.a = "True"
    /\ last.typed = <<"x", "y">>
    /\ Len(sent) = 1
    /\ Len(out) = 2

(* C21: a resume that the server answered with 200, on a node that is not a channel, leaves status "?" and status_raw "?" and active "true", whatever the three fields held before. *)
C21_ResumedIsUnknown ==
    [][(last'.op = "resume" /\ last'.status = 200 /\ heap[last'.self].cls # "Channel") =>
           /\ err' = NoErr
           /\ Len(sent') = 1
           /\ heap'[last'.self].status = "?"
           /\ heap'[last'.self].status_raw = "?"
           /\ heap'[last'.self].active = "true"]_vars

\* a device resumed: no longer reported as paused
C21_Witness ==
    /\ last.op = "resume"
    /\ last.status = 200
    /\ heap[last.self].cls = "Device"
    /\ heap[last.self].status = "?"
    /\ heap[last.self].active = "true"

(* C22: add_tags given something that is not a list raises before any request and changes no field; with clear_old true it sends no read and writes exactly the given tags joined by single spaces; with clear_old false, the read answered, it writes the tags the server held followed by the given tags, joined by single spaces. *)
C22_TagsJoined ==
    [][last'.op = "add_tags" =>
           IF ~last'.tags.list
           THEN sent' = <<>> /\ err' # NoErr /\ heap' = heap
           ELSE IF last'.b = "True"
           THEN /\ Len(sent') = 1
                /\ Contains(sent'[1], "setobjectproperty.htm")
                /\ Contains(sent'[1], "&name=tags&value=" \o Join(last'.tags.items) \o "&user")
           ELSE last'.status = 200 =>
                /\ Len(sent') = 2
                /\ Contains(sent'[1], "getobjectproperty.htm")
                /\ Contains(sent'[2], "&name=tags&value="
                                        \o Join(last'.held_tags \o last'.tags.items)
                                        \o "&user")]_vars

\* the six connection fields of an object
ConfOf(o) ==
    <<o.host, o.port, o.user, o.passhash, o.protocol, o.verify>>

(* C23: no operation changes host, port, user, passhash, protocol or verify of an entity, and every entity has the connection configuration of the root. *)
C23_ConfigFrozen ==
    [][/\ \A o \in DOMAIN heap \cap DOMAIN heap' : ConfOf(heap'[o]) = ConfOf(heap[o])
       /\ \A o \in DOMAIN heap' : ConfOf(heap'[o]) = ConfOf(heap'[Root])]_vars

(* C24: search_byid(x) on the root returns an entity whose id is str(x) whenever a probe, group, device or sensor with that id is held anywhere in the tree, and returns nothing when none is. *)
C24_SearchFindsCached ==
    last.op = "search_byid" =>
        IF \E o \in DOMAIN heap :
               heap[o].cls \in {"Probe", "Group", "Device", "Sensor"} /\ heap[o].id = last.a
        THEN ret \in DOMAIN heap /\ ret # Root /\ heap[ret].id = last.a
        ELSE ret = NoObj

(* C25: get_historic_data returns a table with one key per header column, each column holding one entry per data row in row order, the header row giving no entry. *)
C25_TableByColumn ==
    (last.op = "get_historic_data" /\ last.status = 200) =>
        /\ err = NoErr
        /\ DOMAIN ret = Range(last.csv.headers)
        /\ \A k \in 1..Len(last.csv.headers) :
               ret[last.csv.headers[k]] =
                   [r \in 1..Len(last.csv.rows) |-> last.csv.rows[r][k]]

(* C26: constructing PRTGDevice, PRTGSensor or PRTGHistoricData completes without error and leaves the object with the base URL and the authentication fragment built from the parameters given. *)
C26_StandaloneConstructs ==
    last.op \in {"PRTGDevice", "PRTGSensor", "PRTGHistoricData"} =>
        /\ err = NoErr
        /\ Root \in DOMAIN heap
        /\ heap[Root].base_url = unpack_config(Blank(last.op), last.conf).base_url
        /\ heap[Root].url_auth = unpack_config(Blank(last.op), last.conf).url_auth

\* the objects of the list old that the list new still holds, in old's order
Kept(old, new) == SelectSeq(old, LAMBDA x : Has(new, x))

(* C27: over every refresh, in every collection of every entity the objects that stay keep their order and come first, every object constructed by the refresh comes after them, and in the collections of the refreshed entity the new objects stand in the order in which the fragment names them. *)
C27_OrderKept ==
    [][last'.op = "refresh" =>
           \A o \in DOMAIN heap \cap DOMAIN heap' :
               \A l \in DOMAIN TagOf :
                   /\ SubSeq(heap'[o][l], 1, Len(Kept(heap[o][l], heap'[o][l])))
                          = Kept(heap[o][l], heap'[o][l])
                   /\ \A k \in (Len(Kept(heap[o][l], heap'[o][l])) + 1)..Len(heap'[o][l]) :
                          ~Has(heap[o][l], heap'[o][l][k])
                   /\ (o = last'.self /\ err' = NoErr) =>
                          IdsOf(heap', SubSeq(heap'[o][l],
                                              Len(Kept(heap[o][l], heap'[o][l])) + 1,
                                              Len(heap'[o][l])))
                              = SelectSeq(NewIds(KidsFor(heap, o, last'.soup), 1, TagOf[l]),
                                          LAMBDA i : ~Has(IdsOf(heap, heap[o][l]), i))]_vars

\* a group or probe refreshed with a fragment that names device 1 before
\* device 2 holds device 2 first: device 2 stayed, device 1 is new
C27_Witness ==
    /\ Refreshed
    /\ err = NoErr
    /\ last.self # Root
    /\ heap[last.self].cls \in {"Group", "Probe"}
    /\ IdsOf(heap, heap[last.self].devices) = <<IdStr(2), IdStr(1)>>
    /\ NewIds(last.soup.kids, 1, "device") = <<IdStr(1), IdStr(2)>>

\* the fixed type tag that the constructor of a group, probe or device stores
\* after it has read the fragment
TypeTag(cls) == IF cls = "Device" THEN "Device" ELSE "Group"

\* o and everything below it: each scalar child of the fragment, the last of
\* its name, gave its text to the field of that name. With typed, a group,
\* probe or device that is not in old holds its fixed type tag instead of the
\* text of a child named type
RECURSIVE ScalarsSet(_, _, _, _, _)
ScalarsSet(h, o, soup, old, typed) ==
    LET kids == KidsFor(h, o, soup)
    IN  /\ \A k \in 1..Len(kids) :
               (/\ IsScalar(kids[k])
                /\ kids[k].tag \in DOMAIN h[o]
                /\ \A j \in (k + 1)..Len(kids) : kids[j].tag # kids[k].tag)
                   => h[o][kids[k].tag] =
                          IF typed /\ kids[k].tag = "type" /\ o \notin old
                                /\ h[o].cls # "PRTGApi"
                          THEN TypeTag(h[o].cls)
                          ELSE IF kids[k].text = None THEN "" ELSE kids[k].text
        /\ \A l \in DOMAIN TagOf :
               \A k \in 1..Len(h[o][l]) :
                   ScalarsSet(h, h[o][l][k],
                              FragOf(kids, TagOf[l], h[h[o][l][k]].id), old, typed)

C29_NameKept ==
    [][(/\ err' = NoErr
        /\ \/ last'.op = "set_property" /\ last'.a # "name"
           \/ last'.op \in {"add_tags", "set_host"}
        /\ last'.self \in DOMAIN heap \cap DOMAIN heap')
           => heap'[last'.self].name = heap[last'.self].name]_vars

\* the sensors whose channel cache holds something
Cached(h) == {s \in DOMAIN h : h[s].cls = "Sensor" /\ h[s].channels # <<>>}

\* the request for the channel table of the sensor with that id
IsChannelsRequest(url, idv) ==
    /\ Contains(url, "table.xml?content=channels")
    /\ Contains(url, "&id=" \o idv \o "&")

(* C30: building the tree sends no channels request, and a refresh of the tree or of a sensor sends one channels request for each sensor whose cache held a channel before the refresh and no other request; with every cache empty it sends none. *)
C30_ChannelsOnDemand ==
    /\ last.op = "PRTGApi" => sent = <<>>
    /\ [][last'.op = "refresh" =>
              /\ \A k \in 1..Len(sent') :
                     \E s \in Cached(heap) : IsChannelsRequest(sent'[k], heap[s].id)
              /\ Len(sent') <= Cardinality(Cached(heap))]_vars

\* the tree was refreshed and the one sensor with a cached channel was asked
\* for its channels, the other sensor was not
C30_Witness ==
    /\ Refreshed
    /\ last.self = Root
    /\ err = NoErr
    /\ Cardinality(Cached(heap)) = 1
    /\ Cardinality({s \in DOMAIN heap : heap[s].cls = "Sensor"}) = 2
    /\ Len(sent) = 1

\* the channel objects of the heap h
ChannelsIn(h) == {o \in DOMAIN h : h[o].cls = "Channel"}

(* C31: a get_channels call on a sensor whose channel cache is not empty leaves sensor.channels as it was, the same objects in the same order, and constructs no channel; a cached channel whose objid an item of a good answer names takes the name of that item and keeps its objid, and every other cached channel keeps all its fields. *)
C31_CacheMembershipFixed ==
    [][(last'.op = "get_channels" /\ heap[held].channels # <<>>) =>
           /\ held \in DOMAIN heap'
           /\ heap'[held].channels = heap[held].channels
           /\ ChannelsIn(heap') = ChannelsIn(heap)
           /\ \A c \in Range(heap[held].channels) :
                  IF Answered(c) /\ err' = NoErr
                  THEN heap'[c] = [heap[c] EXCEPT !.name = last'.a]
                  ELSE heap'[c] = heap[c]]_vars

\* the sensor holds one channel, get_channels was answered with two items,
\* the cached one among them: it took the new name and the other was not added
C31_Witness ==
    /\ last.op = "get_channels"
    /\ last.status = 200
    /\ err = NoErr
    /\ Len(last.soup.kids) = 2
    /\ Len(heap[held].channels) = 1
    /\ heap[heap[held].channels[1]].name = last.a
    /\ \E i \in 1..2 :
           Find(last.soup.kids[i], "objid").text # heap[heap[held].channels[1]].objid

\* the fields of an entity that are neither a collection nor a registry
ScalarFields ==
    DOMAIN Blank("free")
        \ ({"cls", "channels", "sensors_by_status"}
               \cup DOMAIN TagOf \cup {RegOf[l] : l \in DOMAIN TagOf})

\* o, reconciled with soup, and every entity below it that was reconciled in
\* place: a scalar field that no child of its fragment names is in h2 what it
\* was in h
RECURSIVE ScalarsKept(_, _, _, _)
ScalarsKept(h, h2, o, soup) ==
    LET kids == KidsFor(h2, o, soup)
    IN  /\ \A f \in ScalarFields :
               (\A k \in 1..Len(kids) : kids[k].tag # f) => h2[o][f] = h[o][f]
        /\ \A l \in DOMAIN TagOf :
               \A k \in 1..Len(h2[o][l]) :
                   h2[o][l][k] \in DOMAIN h
                       => ScalarsKept(h, h2, h2[o][l][k],
                                      FragOf(kids, TagOf[l], h2[h2[o][l][k]].id))

(* C32: over every refresh that returned, the refreshed entity and every entity below it that was reconciled in place keeps the value of each scalar field that its fragment does not name, so a status written by pause or resume stays until a fragment names status again. *)
C32_AbsentScalarsKept ==
    [][(last'.op = "refresh" /\ err' = NoErr /\ last'.self \in DOMAIN heap)
           => ScalarsKept(heap, heap', last'.self, last'.soup)]_vars

\* the group was paused and then refreshed with a fragment that names no
\* status for it: it still says Paused, and its sensor took the status the
\* fragment names
C32_Witness ==
    /\ Refreshed
    /\ err = NoErr
    /\ heap[last.self].cls = "Group"
    /\ \A k \in 1..Len(last.soup.kids) : last.soup.kids[k].tag # "status"
    /\ heap[last.self].status = "Paused"
    /\ heap[last.self].status_raw = "7"
    /\ \E s \in DOMAIN heap : heap[s].cls = "Sensor" /\ heap[s].status = "Up"

====
